---- MODULE Spec2Model ----
(***************************************************************************)
(* Pose-sequence-to-biomechanics pipeline of the disc golf analyzer:       *)
(* keyframe detection (pose/mediapipe_extractor.py), the biomechanics      *)
(* calculators (pose/biomechanics.py) and the rule-based feedback engine   *)
(* (pose/feedback_rules.py).                                               *)
(*                                                                         *)
(* Number representation.  Normalised image coordinates are integers in    *)
(* hundredths (0.05 is 5).  Angles are integers in millidegrees.  Scores   *)
(* are the integers of the code.  Arithmetic is exact rational arithmetic  *)
(* carried out on these integers; the double-precision rounding of the     *)
(* Python floats is not represented.                                       *)
(***************************************************************************)
EXTENDS Integers, Sequences, FiniteSets, TLC

VARIABLES poses, stage, keyframes, handedness, metrics, skill_level,
          metric_scores, tips, strengths, feedback,
          analyzer, metrics_again,
          user_metrics, pro_metrics, comparison,
          angle_series, unwrapped,
          form_metrics, phases, model,
          pc, request, pose_extractor, close_calls, response,
          extract_pc, extract_args, frame_count, reads

\* the pose pipeline of the ML service
pipelineVars == <<poses, stage, keyframes, handedness, metrics, skill_level,
                  metric_scores, tips, strengths, feedback>>

\* the BiomechanicsAnalyzer object and the result of a second analyze call
analyzerVars == <<analyzer, metrics_again>>

\* compare_with_pro: the user's series, the reference model's, the result
compareVars == <<user_metrics, pro_metrics, comparison>>

\* unwrap_angles: the raw angle series and the unwrapped one
unwrapVars == <<angle_series, unwrapped>>

\* identify_key_moments and identify_throw_phases: the metrics mapping of
\* calculate_metrics and the phases found in it
phaseVars == <<form_metrics, phases, model>>

\* the /analyze-pose request handler
handlerVars == <<pc, request, pose_extractor, close_calls, response>>

\* extract_poses_from_video: where the call is, its arguments and the video,
\* the loop counter and the number of frames read
extractVars == <<extract_pc, extract_args, frame_count, reads>>

vars == <<pipelineVars, analyzerVars, compareVars, unwrapVars, phaseVars, handlerVars,
          extractVars>>

(***************************************************************************)
(* Bounds of the model.                                                    *)
(***************************************************************************)
MaxPoses == 5

\* extract_poses_from_video: frames in the video, the max_frames argument,
\* the extractor's sample_rate
MaxVideoFrames == 6
MaxFrameLimit == 5
MaxSampleRate == 3

(***************************************************************************)
(* Generic helpers standing for Python / numpy built-ins.                  *)
(***************************************************************************)
Min(a, b) == IF a < b THEN a ELSE b

Max(a, b) == IF a > b THEN a ELSE b

Abs(a) == IF a < 0 THEN 0 - a ELSE a

RECURSIVE SumSeq(_)
SumSeq(s) == IF s = <<>> THEN 0 ELSE Head(s) + SumSeq(Tail(s))

\* np.argmin: 1-based index of the first occurrence of the minimum
ArgMin(s) == CHOOSE i \in 1..Len(s) :
                 /\ \A j \in 1..Len(s) : s[i] <= s[j]
                 /\ \A j \in 1..(i - 1) : s[j] > s[i]

\* np.argmax: 1-based index of the first occurrence of the maximum
ArgMax(s) == CHOOSE i \in 1..Len(s) :
                 /\ \A j \in 1..Len(s) : s[i] >= s[j]
                 /\ \A j \in 1..(i - 1) : s[j] < s[i]

\* np.diff: first differences
Diff(s) == [i \in 1..(Len(s) - 1) |-> s[i + 1] - s[i]]

\* list comprehension [x for x in s if Test(x)]
RECURSIVE SelectSeqIdx(_, _)
SelectSeqIdx(s, keep) ==
    IF s = <<>> THEN <<>>
    ELSE (IF keep[1] THEN <<Head(s)>> ELSE <<>>)
         \o SelectSeqIdx(Tail(s), [i \in 1..(Len(s) - 1) |-> keep[i + 1]])

\* np.degrees(np.arctan2(dy, dx)) in millidegrees, for line directions whose
\* components are multiples of 10 hundredths between -20 and 20
ArcTan2Table ==
    << <<-135000, -116565, -90000, -63435, -45000>>,
       <<-153435, -135000, -90000, -45000, -26565>>,
       << 180000,  180000,      0,      0,      0>>,
       << 153435,  135000,  90000,  45000,  26565>>,
       << 135000,  116565,  90000,  63435,  45000>> >>

arctan2_degrees(dy, dx) == ArcTan2Table[(dy \div 10) + 3][(dx \div 10) + 3]

(***************************************************************************)
(* FramePose and the landmark sets fed to the pipeline.                    *)
(***************************************************************************)
SAMPLE_RATE == 2

Pt(px, py) == [x |-> px, y |-> py]

NoLandmarks == [n \in {} |-> Pt(0, 0)]

\* upright stance, wrist in front of the body, hip and shoulder lines level
LmSetup ==
    [n \in {"left_shoulder", "right_shoulder", "left_wrist", "right_wrist",
            "left_hip", "right_hip"} |->
        CASE n = "left_shoulder"  -> Pt(40, 30)
          [] n = "right_shoulder" -> Pt(60, 30)
          [] n = "left_wrist"     -> Pt(50, 50)
          [] n = "right_wrist"    -> Pt(50, 50)
          [] n = "left_hip"       -> Pt(40, 60)
          [] n = "right_hip"      -> Pt(60, 60)]

\* right wrist far behind the right shoulder, shoulders turned 45 degrees
LmReach ==
    [n \in {"left_shoulder", "right_shoulder", "left_wrist", "right_wrist",
            "left_hip", "right_hip"} |->
        CASE n = "left_shoulder"  -> Pt(40, 20)
          [] n = "right_shoulder" -> Pt(50, 30)
          [] n = "left_wrist"     -> Pt(95, 40)
          [] n = "right_wrist"    -> Pt(5, 40)
          [] n = "left_hip"       -> Pt(40, 60)
          [] n = "right_hip"      -> Pt(60, 60)]

\* arm across the body, body turned past the camera axis: the hip line is at
\* +153.435 degrees and the shoulder line at -153.435 degrees
LmForward ==
    [n \in {"left_shoulder", "right_shoulder", "left_wrist", "right_wrist",
            "left_hip", "right_hip"} |->
        CASE n = "left_shoulder"  -> Pt(70, 40)
          [] n = "right_shoulder" -> Pt(50, 30)
          [] n = "left_wrist"     -> Pt(20, 40)
          [] n = "right_wrist"    -> Pt(80, 40)
          [] n = "left_hip"       -> Pt(70, 50)
          [] n = "right_hip"      -> Pt(50, 60)]

\* body found but both wrists occluded
LmNoWrist ==
    [n \in {"left_shoulder", "right_shoulder", "left_hip", "right_hip"} |->
        CASE n = "left_shoulder"  -> Pt(40, 40)
          [] n = "right_shoulder" -> Pt(60, 20)
          [] n = "left_hip"       -> Pt(50, 60)
          [] n = "right_hip"      -> Pt(70, 50)]

\* only the wrists are known
LmWristsOnly ==
    [n \in {"left_wrist", "right_wrist"} |->
        CASE n = "left_wrist"  -> Pt(40, 50)
          [] n = "right_wrist" -> Pt(30, 50)]

LandmarkSets == {NoLandmarks, LmSetup, LmReach, LmForward, LmNoWrist, LmWristsOnly}

\* _process_frame: detected is false exactly when no landmarks were found.
\* With repeat = 1 the frame numbers are those of the sampled frames,
\* SAMPLE_RATE apart; with repeat = 2 every frame number occurs twice, a
\* list a caller can hand over whose frame numbers are only non-decreasing.
FramePose(i, lm, repeat) ==
    [frame_number |-> SAMPLE_RATE * ((i - 1) \div repeat),
     detected     |-> DOMAIN lm # {},
     landmarks    |-> lm]

\* the pose list whose i-th pose carries the landmarks lms[i]
PoseList(lms, repeat) == [i \in 1..Len(lms) |-> FramePose(i, lms[i], repeat)]

Has(pose, name) == name \in DOMAIN pose.landmarks

DetectedPoses(ps) == SelectSeqIdx(ps, [i \in 1..Len(ps) |-> ps[i].detected])

(***************************************************************************)
(* MediaPipePoseExtractor.get_keyframe_indices                             *)
(***************************************************************************)
\* variant of WristX in which a missing wrist counts as x = 0
WristXMissingAsZero(detected_poses) ==
    [i \in 1..Len(detected_poses) |->
        IF Has(detected_poses[i], "right_wrist")
        THEN detected_poses[i].landmarks["right_wrist"].x
        ELSE 0]

WristX(detected_poses) ==
    [i \in 1..Len(detected_poses) |->
        IF Has(detected_poses[i], "right_wrist")
        THEN detected_poses[i].landmarks["right_wrist"].x
        ELSE 50]

ReachbackIdx(detected_poses) == ArgMin(WristX(detected_poses))

\* variant of ReleaseIdx that forgets to add reachback_idx to the index found
\* in the slice
ReleaseIdxWithoutOffset(detected_poses) ==
    LET wrist_x       == WristX(detected_poses)
        reachback_idx == ReachbackIdx(detected_poses)
        velocities    == Diff(SubSeq(wrist_x, reachback_idx, Len(wrist_x)))
    IN  Min((ArgMax(velocities) - 1) + 1, Len(detected_poses))

\* the release index without the step from a velocity to the later of its
\* two poses
ReleaseIdxAtVelocityStart(detected_poses) ==
    LET wrist_x       == WristX(detected_poses)
        reachback_idx == ReachbackIdx(detected_poses)
        velocities    == Diff(SubSeq(wrist_x, reachback_idx, Len(wrist_x)))
    IN  Min(reachback_idx + (ArgMax(velocities) - 1), Len(detected_poses))

ReleaseIdx(detected_poses) ==
    LET wrist_x       == WristX(detected_poses)
        reachback_idx == ReachbackIdx(detected_poses)
        velocities    == Diff(SubSeq(wrist_x, reachback_idx, Len(wrist_x)))
    IN  Min(reachback_idx + (ArgMax(velocities) - 1) + 1, Len(detected_poses))

\* variant of HasRelease that is content with one pose after the reachback
HasReleaseWithOnePoseAfter(detected_poses) ==
    Len(detected_poses) > (ReachbackIdx(detected_poses) - 1) + 1

\* the guard of line 224, reachback_idx counting from 0
HasRelease(detected_poses) ==
    Len(detected_poses) > (ReachbackIdx(detected_poses) - 1) + 2

\* variant of TooFewDetected that lets four detected poses through
TooFewDetectedBelowFour(detected_poses) == Len(detected_poses) < 4

\* the guard of line 204
TooFewDetected(detected_poses) == Len(detected_poses) < 5

NoKeyframes == [k \in {} |-> 0]

get_keyframe_indices(ps) ==
    LET detected_poses == DetectedPoses(ps)
        empty          == NoKeyframes
    IN  IF Len(ps) < 5 THEN empty
        ELSE IF TooFewDetected(detected_poses) THEN empty
        ELSE [k \in {"reachback", "setup", "follow_through"}
                    \cup (IF HasRelease(detected_poses) THEN {"release"} ELSE {}) |->
                CASE k = "reachback" ->
                        detected_poses[ReachbackIdx(detected_poses)].frame_number
                  [] k = "setup" -> detected_poses[1].frame_number
                  [] k = "release" ->
                        detected_poses[ReleaseIdx(detected_poses)].frame_number
                  [] k = "follow_through" ->
                        detected_poses[Len(detected_poses)].frame_number]

(***************************************************************************)
(* BiomechanicsAnalyzer (pose/biomechanics.py)                             *)
(***************************************************************************)
Handednesses == {"right", "left"}

throwing_wrist(h) == IF h = "right" THEN "right_wrist" ELSE "left_wrist"

throwing_shoulder(h) == IF h = "right" THEN "right_shoulder" ELSE "left_shoulder"

\* BiomechanicsMetrics(): the dataclass defaults
DefaultMetrics ==
    [reachback_depth_score       |-> 0,
     hip_rotation_degrees        |-> 0,
     shoulder_separation_degrees |-> 0,
     follow_through_score        |-> 0,
     weight_shift_score          |-> 0]

\* the loop of _calculate_reachback: acc = <<min_wrist_x, shoulder_x_at_reachback>>
RECURSIVE ReachbackScan(_, _, _)
ReachbackScan(ps, h, acc) ==
    IF ps = <<>> THEN acc
    ELSE LET pose == Head(ps)
         IN  IF ~Has(pose, throwing_wrist(h))
             THEN ReachbackScan(Tail(ps), h, acc)
             ELSE LET wrist == pose.landmarks[throwing_wrist(h)]
                  IN  IF wrist.x < acc[1]
                      THEN ReachbackScan(Tail(ps), h,
                               <<wrist.x,
                                 IF Has(pose, throwing_shoulder(h))
                                 THEN pose.landmarks[throwing_shoulder(h)].x
                                 ELSE acc[2]>>)
                      ELSE ReachbackScan(Tail(ps), h, acc)

ReachbackDepth(ps, h) ==
    LET acc == ReachbackScan(ps, h, <<100, 50>>)
    IN  acc[2] - acc[1]

\* variant of calculate_reachback that scores as its comment says: depth
\* 0 to 0.1 gives 0 to 50, depth 0.1 to 0.25 gives 50 to 100
calculate_reachback_as_commented(ps, h) ==
    LET depth == ReachbackDepth(ps, h)
        score == IF depth < 0 THEN 30
                 ELSE IF depth < 10 THEN (depth * 50) \div 10
                 ELSE 50 + ((Min(depth - 10, 15) * 50) \div 15)
    IN  Min(100, Max(0, score))

calculate_reachback(ps, h) ==
    LET depth == ReachbackDepth(ps, h)
        score == IF depth < 0 THEN 30
                 ELSE IF depth < 10 THEN 30 + ((depth * 30) \div 10)
                 ELSE 60 + ((Min(depth - 10, 15) * 40) \div 15)
    IN  Min(100, Max(0, score))

get_line_angle(pose, landmark1, landmark2) ==
    LET p1 == pose.landmarks[landmark1]
        p2 == pose.landmarks[landmark2]
    IN  arctan2_degrees(p2.y - p1.y, p2.x - p1.x)

HasLine(pose, landmark1, landmark2) == Has(pose, landmark1) /\ Has(pose, landmark2)

\* the hip angles of the poses that have both hips, in pose order
HipAngles(ps) ==
    LET withHips == SelectSeqIdx(ps, [i \in 1..Len(ps) |->
                                        HasLine(ps[i], "left_hip", "right_hip")])
    IN  [i \in 1..Len(withHips) |-> get_line_angle(withHips[i], "left_hip", "right_hip")]

calculate_hip_rotation(ps) ==
    IF Len(ps) < 2 THEN 0
    ELSE LET angles == HipAngles(ps)
             n      == Len(angles)
         IN  IF n < 2 THEN 0
             ELSE LET early  == SubSeq(angles, 1, (n \div 4) + 1)
                      late   == SubSeq(angles, ((n * 3) \div 4) + 1, n)
                      \* |mean(late) - mean(early)| as a fraction num / den
                      num    == Abs(SumSeq(late) * Len(early) - SumSeq(early) * Len(late))
                      den    == Len(early) * Len(late)
                  IN  Min(90000, num \div den)

\* variant of FrameSeparation that leaves out the fold of lines 188-189
FrameSeparationUnfolded(pose) ==
    LET hip_angle      == get_line_angle(pose, "left_hip", "right_hip")
        shoulder_angle == get_line_angle(pose, "left_shoulder", "right_shoulder")
    IN  Abs(shoulder_angle - hip_angle)

\* separation of one frame after the fold of lines 188-189
FrameSeparation(pose) ==
    LET hip_angle      == get_line_angle(pose, "left_hip", "right_hip")
        shoulder_angle == get_line_angle(pose, "left_shoulder", "right_shoulder")
        separation     == Abs(shoulder_angle - hip_angle)
    IN  IF separation > 90000 THEN 180000 - separation ELSE separation

RECURSIVE SeparationScan(_, _)
SeparationScan(ps, max_separation) ==
    IF ps = <<>> THEN max_separation
    ELSE LET pose == Head(ps)
         IN  IF HasLine(pose, "left_hip", "right_hip")
                /\ HasLine(pose, "left_shoulder", "right_shoulder")
             THEN SeparationScan(Tail(ps), Max(max_separation, FrameSeparation(pose)))
             ELSE SeparationScan(Tail(ps), max_separation)

calculate_shoulder_separation(ps) == SeparationScan(ps, 0)

\* the loop of _calculate_follow_through: acc = <<max_wrist_x, max_extension>>
RECURSIVE FollowScan(_, _, _)
FollowScan(ps, h, acc) ==
    IF ps = <<>> THEN acc
    ELSE LET pose == Head(ps)
         IN  IF ~Has(pose, throwing_wrist(h))
             THEN FollowScan(Tail(ps), h, acc)
             ELSE LET wrist == pose.landmarks[throwing_wrist(h)]
                      ext   == IF Has(pose, throwing_shoulder(h))
                               THEN Max(acc[2],
                                        Abs(wrist.x - pose.landmarks[throwing_shoulder(h)].x))
                               ELSE acc[2]
                  IN  FollowScan(Tail(ps), h, <<Max(acc[1], wrist.x), ext>>)

calculate_follow_through(ps, h) ==
    IF Len(ps) < 3 THEN 50
    ELSE LET follow_poses    == SubSeq(ps, ((Len(ps) * 2) \div 3) + 1, Len(ps))
             acc             == FollowScan(follow_poses, h, <<0, 0>>)
             \* wrist_score and extension_score in tenths of a point
             wrist_score     == Min(500, acc[1] * 6)
             extension_score == Min(500, acc[2] * 15)
         IN  (wrist_score + extension_score) \div 10

\* twice the hip centre x of the poses that have both hips, in pose order
HipCenters2(ps) ==
    LET withHips == SelectSeqIdx(ps, [i \in 1..Len(ps) |->
                                        HasLine(ps[i], "left_hip", "right_hip")])
    IN  [i \in 1..Len(withHips) |->
            withHips[i].landmarks["left_hip"].x + withHips[i].landmarks["right_hip"].x]

calculate_weight_shift(ps, h) ==
    IF Len(ps) < 2 THEN 50
    ELSE LET hip_centers == HipCenters2(ps)
         IN  IF Len(hip_centers) < 2 THEN 50
             ELSE LET total_shift   == hip_centers[Len(hip_centers)] - hip_centers[1]
                      \* shift_quality in two-hundredths
                      shift_quality == IF h = "right" THEN total_shift ELSE 0 - total_shift
                      score == IF shift_quality < 0 THEN 30
                               ELSE IF shift_quality < 10
                                    THEN 30 + ((shift_quality * 20) \div 10)
                               ELSE 50 + ((Min(shift_quality - 10, 20) * 50) \div 20)
                  IN  Min(100, Max(0, score))

\* variant of InsufficientPoses that lets two detected poses through
InsufficientPosesBelowTwo(detected_poses) == Len(detected_poses) < 2

\* the guard of line 90
InsufficientPoses(detected_poses) == Len(detected_poses) < 3

analyze(ps, h) ==
    IF ps = <<>> THEN DefaultMetrics
    ELSE LET detected_poses == DetectedPoses(ps)
         IN  IF InsufficientPoses(detected_poses) THEN DefaultMetrics
             ELSE [reachback_depth_score       |-> calculate_reachback(detected_poses, h),
                   hip_rotation_degrees        |-> calculate_hip_rotation(detected_poses),
                   shoulder_separation_degrees |-> calculate_shoulder_separation(detected_poses),
                   follow_through_score        |-> calculate_follow_through(detected_poses, h),
                   weight_shift_score          |-> calculate_weight_shift(detected_poses, h)]

\* BiomechanicsAnalyzer.__init__: the fields of the analyzer object
BiomechanicsAnalyzer(h) ==
    [handedness        |-> h,
     throwing_wrist    |-> throwing_wrist(h),
     throwing_elbow    |-> IF h = "right" THEN "right_elbow" ELSE "left_elbow",
     throwing_shoulder |-> throwing_shoulder(h),
     other_wrist       |-> throwing_wrist(IF h = "right" THEN "left" ELSE "right"),
     other_shoulder    |-> throwing_shoulder(IF h = "right" THEN "left" ELSE "right")]

\* "None": no analyzer has been constructed
NoAnalyzer == [f \in {} |-> ""]

\* variant of AnalyzerAfterAnalyze in which analyze leaves the analyzer set up
\* for the other hand
AnalyzerAfterAnalyzeSwapsSide(self) ==
    BiomechanicsAnalyzer(IF self.handedness = "right" THEN "left" ELSE "right")

\* the analyzer object after a call of analyze: no statement of analyze or
\* of the calculators assigns to a field of self
AnalyzerAfterAnalyze(self) == self

(***************************************************************************)
(* BiomechanicsMetrics.to_dict and the feedback engine                     *)
(* (pose/feedback_rules.py).  In the dictionary the two degree metrics are *)
(* in tenths of a degree, the three scores are plain integers.             *)
(***************************************************************************)
\* round(x, 1) of a value given in millidegrees, result in tenths
Round1(md) ==
    LET q == md \div 100
        r == md % 100
    IN  IF r > 50 \/ (r = 50 /\ q % 2 = 1) THEN q + 1 ELSE q

to_dict(m) ==
    [reachback_depth_score       |-> m.reachback_depth_score,
     hip_rotation_degrees        |-> Round1(m.hip_rotation_degrees),
     shoulder_separation_degrees |-> Round1(m.shoulder_separation_degrees),
     follow_through_score        |-> m.follow_through_score,
     weight_shift_score          |-> m.weight_shift_score]

IsDegrees(metric) ==
    metric \in {"hip_rotation_degrees", "shoulder_separation_degrees"}

\* a dictionary value in hundredths of its unit
Value100(metrics_dict, metric) ==
    IF IsDegrees(metric) THEN metrics_dict[metric] * 10 ELSE metrics_dict[metric] * 100

FEEDBACK_RULES ==
    << [metric |-> "reachback_depth_score", low |-> 50, high |-> 75,
        low_feedback  |-> "Extend your reachback further",
        good_feedback |-> "Good reachback extension"],
       [metric |-> "hip_rotation_degrees", low |-> 30, high |-> 45,
        low_feedback  |-> "Rotate your hips more during the throw",
        good_feedback |-> "Good hip rotation"],
       [metric |-> "shoulder_separation_degrees", low |-> 25, high |-> 40,
        low_feedback  |-> "Create more separation between your shoulders and hips",
        good_feedback |-> "Good shoulder-hip separation"],
       [metric |-> "follow_through_score", low |-> 50, high |-> 75,
        low_feedback  |-> "Follow through more completely",
        good_feedback |-> "Good follow-through"],
       [metric |-> "weight_shift_score", low |-> 50, high |-> 75,
        low_feedback  |-> "Shift your weight more decisively",
        good_feedback |-> "Good weight transfer"] >>

\* variant of PRIORITY_ORDER that follows the order of the rule table
PRIORITY_ORDER_AsRuleTable ==
    << "reachback_depth_score", "hip_rotation_degrees", "shoulder_separation_degrees",
       "follow_through_score", "weight_shift_score" >>

\* variant of PRIORITY_ORDER that puts the legs first
PRIORITY_ORDER_WeightShiftFirst ==
    << "weight_shift_score", "hip_rotation_degrees", "reachback_depth_score",
       "shoulder_separation_degrees", "follow_through_score" >>

PRIORITY_ORDER ==
    << "hip_rotation_degrees", "reachback_depth_score", "shoulder_separation_degrees",
       "weight_shift_score", "follow_through_score" >>

GenericTip == "Your form looks solid. Focus on consistency and timing."

GenericStrength == "Keep working on your fundamentals."

SkillLevels == {"beginner", "intermediate", "advanced"}

\* FeedbackGenerator.__init__: the multiplier in hundredths
threshold_multiplier(skill) ==
    CASE skill = "beginner" -> 80
      [] skill = "intermediate" -> 100
      [] skill = "advanced" -> 115
      [] OTHER -> 100

\* variant of Classify whose low boundary is inclusive
ClassifyLowInclusive(rule, metrics_dict, skill) ==
    LET value         == Value100(metrics_dict, rule.metric)
        adjusted_low  == rule.low * threshold_multiplier(skill)
        adjusted_high == rule.high * threshold_multiplier(skill)
    IN  IF value <= adjusted_low THEN "low"
        ELSE IF value >= adjusted_high THEN "high"
        ELSE "medium"

\* the branch of lines 122-129 taken for one rule
Classify(rule, metrics_dict, skill) ==
    LET value         == Value100(metrics_dict, rule.metric)
        adjusted_low  == rule.low * threshold_multiplier(skill)
        adjusted_high == rule.high * threshold_multiplier(skill)
    IN  IF value < adjusted_low THEN "low"
        ELSE IF value >= adjusted_high THEN "high"
        ELSE "medium"

MetricScores(metrics_dict, skill) ==
    [metric \in {FEEDBACK_RULES[i].metric : i \in 1..Len(FEEDBACK_RULES)} |->
        LET rule == CHOOSE r \in {FEEDBACK_RULES[i] : i \in 1..Len(FEEDBACK_RULES)} :
                        r.metric = metric
        IN  Classify(rule, metrics_dict, skill)]

\* the tips / strengths lists built by the loop of lines 114-129
RECURSIVE Collect(_, _, _, _)
Collect(rules, metrics_dict, skill, status) ==
    IF rules = <<>> THEN <<>>
    ELSE (IF Classify(Head(rules), metrics_dict, skill) = status
          THEN <<IF status = "low" THEN Head(rules).low_feedback
                 ELSE Head(rules).good_feedback>>
          ELSE <<>>)
         \o Collect(Tail(rules), metrics_dict, skill, status)

\* Python slice s[:n]
Take(s, n) == SubSeq(s, 1, Min(n, Len(s)))

metric_to_focus_area(metric_name) ==
    CASE metric_name = "reachback_depth_score" -> "reachback"
      [] metric_name = "hip_rotation_degrees" -> "hip_rotation"
      [] metric_name = "shoulder_separation_degrees" -> "x_factor"
      [] metric_name = "follow_through_score" -> "follow_through"
      [] metric_name = "weight_shift_score" -> "weight_transfer"
      [] OTHER -> metric_name

\* lines 172-174: the value compared in the second loop, in tenths
NormalizedValue(metrics_dict, metric) ==
    IF IsDegrees(metric) THEN Min(1000, metrics_dict[metric] * 2)
    ELSE metrics_dict[metric] * 10

\* variant of LowestScan in which a later metric wins a tie
RECURSIVE LowestScanLastWins(_, _, _)
LowestScanLastWins(order, metrics_dict, acc) ==
    IF order = <<>> THEN acc
    ELSE LET metric == Head(order)
             value  == NormalizedValue(metrics_dict, metric)
         IN  IF value <= acc[2]
             THEN LowestScanLastWins(Tail(order), metrics_dict, <<metric, value>>)
             ELSE LowestScanLastWins(Tail(order), metrics_dict, acc)

\* lines 166-178: acc = <<lowest_metric, lowest_value>>, "" standing for None
\* and 1000000 for float('inf')
RECURSIVE LowestScan(_, _, _)
LowestScan(order, metrics_dict, acc) ==
    IF order = <<>> THEN acc
    ELSE LET metric == Head(order)
             value  == NormalizedValue(metrics_dict, metric)
         IN  IF value < acc[2]
             THEN LowestScan(Tail(order), metrics_dict, <<metric, value>>)
             ELSE LowestScan(Tail(order), metrics_dict, acc)

determine_priority(scores, metrics_dict) ==
    LET lows == SelectSeqIdx(PRIORITY_ORDER,
                             [i \in 1..Len(PRIORITY_ORDER) |->
                                 scores[PRIORITY_ORDER[i]] = "low"])
        lowest_metric == LowestScan(PRIORITY_ORDER, metrics_dict, <<"", 1000000>>)[1]
    IN  IF lows # <<>> THEN metric_to_focus_area(Head(lows))
        ELSE IF lowest_metric # "" THEN metric_to_focus_area(lowest_metric)
        ELSE "timing"

\* the weights of lines 202-208 in hundredths, in dictionary order
Weights ==
    << [metric |-> "reachback_depth_score", weight |-> 20],
       [metric |-> "hip_rotation_degrees", weight |-> 25],
       [metric |-> "shoulder_separation_degrees", weight |-> 20],
       [metric |-> "follow_through_score", weight |-> 15],
       [metric |-> "weight_shift_score", weight |-> 20] >>

\* lines 217-223: the value on the 0-100 scale, multiplied by 18 so that the
\* divisions by 60 and by 45 stay exact
ScaledValue18(metrics_dict, metric) ==
    CASE metric = "hip_rotation_degrees" -> Min(1800, metrics_dict[metric] * 3)
      [] metric = "shoulder_separation_degrees" -> Min(1800, metrics_dict[metric] * 4)
      [] OTHER -> metrics_dict[metric] * 18

RECURSIVE TotalScore(_, _)
TotalScore(ws, metrics_dict) ==
    IF ws = <<>> THEN 0
    ELSE ScaledValue18(metrics_dict, Head(ws).metric) * Head(ws).weight
         + TotalScore(Tail(ws), metrics_dict)

RECURSIVE TotalWeight(_)
TotalWeight(ws) == IF ws = <<>> THEN 0 ELSE Head(ws).weight + TotalWeight(Tail(ws))

calculate_overall_score(m) ==
    LET metrics_dict == to_dict(m)
        total_score  == TotalScore(Weights, metrics_dict)
        total_weight == TotalWeight(Weights)
    IN  IF total_weight > 0 THEN total_score \div (18 * total_weight) ELSE 50

\* the locals tips and strengths at the return of generate_feedback
TipsOf(m, skill) ==
    LET found == Collect(FEEDBACK_RULES, to_dict(m), skill, "low")
    IN  IF Len(found) = 0 THEN <<GenericTip>> ELSE found

StrengthsOf(m, skill) ==
    LET found == Collect(FEEDBACK_RULES, to_dict(m), skill, "high")
    IN  IF Len(found) = 0 THEN <<GenericStrength>> ELSE found

\* variant of CapTips that keeps five tips
CapTipsFive(t) == Take(t, 5)

\* tips[:4] and strengths[:3] of lines 145 and 147
CapTips(t) == Take(t, 4)

CapStrengths(t) == Take(t, 3)

generate_feedback(m, skill) ==
    [pose_tips      |-> CapTips(TipsOf(m, skill)),
     priority_focus |-> determine_priority(MetricScores(to_dict(m), skill), to_dict(m)),
     strengths      |-> CapStrengths(StrengthsOf(m, skill)),
     overall_score  |-> calculate_overall_score(m)]

(***************************************************************************)
(* compare_with_pro (data-collection/pro_form_analyzer.py).  A series is a *)
(* sequence of records [frame, value] with integer frames and values.      *)
(* The quotients the code forms are kept as exact fractions <<n, d>>,      *)
(* d > 0, in lowest terms.                                                 *)
(***************************************************************************)
RECURSIVE GCD(_, _)
GCD(a, b) == IF b = 0 THEN a ELSE GCD(b, a % b)

\* the fraction n / d, d # 0, in lowest terms with a positive denominator
Frac(n, d) ==
    LET g == GCD(Abs(n), Abs(d))
        sgn == IF d < 0 THEN 0 - 1 ELSE 1
    IN  IF n = 0 THEN <<0, 1>> ELSE <<(sgn * n) \div g, (sgn * d) \div g>>

FracAdd(a, b) == Frac(a[1] * b[2] + b[1] * a[2], a[2] * b[2])

FracSub(a, b) == Frac(a[1] * b[2] - b[1] * a[2], a[2] * b[2])

FracAbs(a) == <<Abs(a[1]), a[2]>>

\* a / k for an integer k # 0
FracDivInt(a, k) == Frac(a[1], a[2] * k)

FracLess(a, b) == a[1] * b[2] < b[1] * a[2]

RECURSIVE FracSum(_)
FracSum(s) == IF s = <<>> THEN <<0, 1>> ELSE FracAdd(Head(s), FracSum(Tail(s)))

\* max and min of the frames or of the values of a non-empty series
MaxFrame(series) ==
    CHOOSE f \in {series[i].frame : i \in 1..Len(series)} :
        \A i \in 1..Len(series) : series[i].frame <= f

MaxValue(series) ==
    CHOOSE v \in {series[i].value : i \in 1..Len(series)} :
        \A i \in 1..Len(series) : series[i].value <= v

MinValue(series) ==
    CHOOSE v \in {series[i].value : i \in 1..Len(series)} :
        \A i \in 1..Len(series) : series[i].value >= v

\* variant of ProMaxFrame that normalizes the reference frames by the
\* user's maximum frame
ProMaxFrameOfUser(pro_series, user_series) == MaxFrame(user_series)

\* line 188: the divisor of the reference frames
ProMaxFrame(pro_series, user_series) == MaxFrame(pro_series)

\* scipy interp1d(pro_frames_norm, pro_values, fill_value="extrapolate") at
\* the normalized user frame uf / umax: the segment is found as
\* numpy.searchsorted does, clipped to the first and last segment, and the
\* line through its end points is evaluated.  pro has at least two samples.
Interpolate(pro_series, pmax, uf, umax) ==
    LET n   == Len(pro_series)
        pos == Cardinality({j \in 1..n : pro_series[j].frame * umax < uf * pmax})
        lo  == Max(1, Min(n - 1, pos))
        hi  == lo + 1
        num == (pro_series[hi].value - pro_series[lo].value)
                   * (uf * pmax - pro_series[lo].frame * umax)
        den == (pro_series[hi].frame - pro_series[lo].frame) * umax
    IN  FracAdd(<<pro_series[lo].value, 1>>, Frac(num, den))

\* np.mean(np.abs(user_values - pro_values_interp))
MeanDiff(user_series, pro_series) ==
    LET umax  == MaxFrame(user_series)
        pmax  == ProMaxFrame(pro_series, user_series)
        diffs == [i \in 1..Len(user_series) |->
                     FracAbs(FracSub(<<user_series[i].value, 1>>,
                                     Interpolate(pro_series, pmax,
                                                 user_series[i].frame, umax)))]
    IN  FracDivInt(FracSum(diffs), Len(user_series))

AngleMetrics == {"shoulder_rotation", "hip_rotation", "elbow_angle", "wrist_angle"}

\* lines 199-216: the similarity before clamping.  A numpy division by a
\* zero maximum speed gives nan (0 / 0) or makes the similarity -inf.
RawSimilarity(metric_name, user_series, pro_series) ==
    LET mean == MeanDiff(user_series, pro_series)
        one  == <<1, 1>>
    IN  IF metric_name \in AngleMetrics
        THEN [kind |-> "number", value |-> FracSub(one, FracDivInt(mean, 180))]
        ELSE IF metric_name = "disc_speed"
        THEN LET max_pro_speed == MaxValue(pro_series)
             IN  IF max_pro_speed # 0
                 THEN [kind |-> "number",
                       value |-> FracSub(one, FracDivInt(mean, max_pro_speed))]
                 ELSE IF mean = <<0, 1>>
                 THEN [kind |-> "nan", value |-> one]
                 ELSE [kind |-> "-inf", value |-> one]
        ELSE LET max_val == Max(MaxValue(user_series), MaxValue(pro_series))
                 min_val == Min(MinValue(user_series), MinValue(pro_series))
             IN  IF max_val > min_val
                 THEN [kind |-> "number",
                       value |-> FracSub(one, FracDivInt(mean, max_val - min_val))]
                 ELSE [kind |-> "number", value |-> one]

\* variant of Clamp01 that only applies min(1.0, .)
Clamp01UpperOnly(raw) ==
    IF raw.kind = "nan" THEN <<1, 1>>
    ELSE IF raw.kind = "-inf" THEN <<0 - 1, 1>>
    ELSE IF FracLess(raw.value, <<1, 1>>) THEN raw.value ELSE <<1, 1>>

\* line 218: max(0.0, min(1.0, similarity)).  Python's min and max keep
\* their first argument unless the other one compares smaller / larger, so
\* nan becomes 1.0 and -inf becomes 0.0.
Clamp01(raw) ==
    IF raw.kind = "nan" THEN <<1, 1>>
    ELSE IF raw.kind = "-inf" THEN <<0, 1>>
    ELSE LET upper == IF FracLess(raw.value, <<1, 1>>) THEN raw.value ELSE <<1, 1>>
         IN  IF FracLess(<<0, 1>>, upper) THEN upper ELSE <<0, 1>>

\* the keys of a metrics dictionary in the order calculate_metrics and
\* analyze_user_video insert them
MetricOrder ==
    << "shoulder_rotation", "elbow_angle", "wrist_angle", "hip_rotation",
       "reach_back_extension", "follow_through_extension", "key_moments",
       "disc_speed" >>

\* the metrics that pass the tests of lines 174 and 177
ComparedMetrics(user, pro) ==
    {name \in DOMAIN user :
        /\ name # "key_moments"
        /\ user[name] # <<>>
        /\ name \in DOMAIN pro
        /\ pro[name] # <<>>}

\* line 192: the metrics for which a similarity is computed
InterpolatedMetrics(user, pro) ==
    {name \in ComparedMetrics(user, pro) : Len(pro[name]) > 1}

\* the running sum of line 219, in dictionary order
RECURSIVE SumSimilarities(_, _)
SumSimilarities(order, similarity_scores) ==
    IF order = <<>> THEN <<0, 1>>
    ELSE FracAdd(IF Head(order) \in DOMAIN similarity_scores
                 THEN similarity_scores[Head(order)] ELSE <<0, 1>>,
                 SumSimilarities(Tail(order), similarity_scores))

NoComparison == [status |-> "none"]

\* the result of compare_with_pro, without the pro_name and throw_type it
\* copies from the model file.  Lines 187-188 divide by the largest frame of
\* each series before the length test of line 192, and a largest frame of 0
\* makes that division raise ZeroDivisionError.
compare_with_pro(user, pro) ==
    IF \E name \in ComparedMetrics(user, pro) :
           MaxFrame(user[name]) = 0 \/ MaxFrame(pro[name]) = 0
    THEN [status |-> "ZeroDivisionError"]
    ELSE LET similarity_scores ==
                 [name \in InterpolatedMetrics(user, pro) |->
                     Clamp01(RawSimilarity(name, user[name], pro[name]))]
             metric_count == Cardinality(DOMAIN similarity_scores)
             total        == SumSimilarities(MetricOrder, similarity_scores)
         IN  [status              |-> "ok",
              overall_similarity  |-> IF metric_count > 0
                                      THEN FracDivInt(total, metric_count)
                                      ELSE <<0, 1>>,
              metric_similarities |-> similarity_scores]

(***************************************************************************)
(* unwrap_angles (data-collection/form_metrics.py).  Angles are in         *)
(* millidegrees; the conversion to radians and back scales the period of   *)
(* numpy.unwrap from 2 pi to 360 degrees and is carried out exactly here.  *)
(***************************************************************************)
\* variant of PhCorrect that works with a period of 180 degrees
PhCorrectHalfPeriod(dd) ==
    LET ddmod0 == ((dd + 90000) % 180000) - 90000
        ddmod  == IF ddmod0 = 0 - 90000 /\ dd > 0 THEN 90000 ELSE ddmod0
    IN  IF Abs(dd) < 180000 THEN 0 ELSE ddmod - dd

\* numpy.unwrap: the correction for one difference dd of consecutive angles.
\* dd is brought into [-180, 180), a result of -180 coming from a positive
\* difference is taken as +180, and differences below 180 degrees are left
\* alone.
PhCorrect(dd) ==
    LET ddmod0 == ((dd + 180000) % 360000) - 180000
        ddmod  == IF ddmod0 = 0 - 180000 /\ dd > 0 THEN 180000 ELSE ddmod0
    IN  IF Abs(dd) < 180000 THEN 0 ELSE ddmod - dd

\* ph_correct.cumsum() up to index i (the correction applied to p[i])
RECURSIVE CumCorrection(_, _)
CumCorrection(p, i) ==
    IF i <= 1 THEN 0
    ELSE CumCorrection(p, i - 1) + PhCorrect(p[i] - p[i - 1])

unwrap_angles(p) == [i \in 1..Len(p) |-> p[i] + CumCorrection(p, i)]

(***************************************************************************)
(* identify_key_moments (data-collection/form_metrics.py) and              *)
(* identify_throw_phases (data-collection/model_generator.py and, the same *)
(* text, pro_form_analyzer.py).  A metrics mapping is a function from      *)
(* metric names to series of records [frame, value]; calculate_metrics     *)
(* leaves out a metric without samples and stores the key moments under    *)
(* "key_moments".                                                          *)
(***************************************************************************)
NoDict == [k \in {} |-> 0]

\* form_metrics.py line 176: len(elbow_data) > 10
MIN_POINTS == 10

\* model_generator.py line 98
REACH_BACK_LEAD == 15

\* model_generator.py line 113
RELEASE_HALF_WIDTH == 5

\* "name in metrics and metrics[name]"
HasSamples(m, name) == name \in DOMAIN m /\ m[name] # <<>>

\* np.argmax(np.abs(v)): the first index of the greatest absolute value
ArgMaxAbs(v) == CHOOSE i \in 1..Len(v) :
                    /\ \A j \in 1..Len(v) : Abs(v[i]) >= Abs(v[j])
                    /\ \A j \in 1..(i - 1) : Abs(v[j]) < Abs(v[i])

\* the order of sorted() on (frame, value) pairs
PairBefore(a, b) == a.frame < b.frame \/ (a.frame = b.frame /\ a.value <= b.value)

RECURSIVE InsertSorted(_, _)
InsertSorted(s, x) ==
    IF s = <<>> THEN <<x>>
    ELSE IF PairBefore(x, Head(s)) THEN <<x>> \o s
    ELSE <<Head(s)>> \o InsertSorted(Tail(s), x)

RECURSIVE Sorted(_)
Sorted(s) == IF s = <<>> THEN <<>> ELSE InsertSorted(Sorted(Tail(s)), Head(s))

\* form_metrics.py lines 156-163
ReachBackMoment(m) ==
    LET elbow == m["elbow_angle"]
        i == ArgMin([j \in 1..Len(elbow) |-> elbow[j].value])
    IN  [frame |-> elbow[i].frame, elbow_angle |-> elbow[i].value]

\* form_metrics.py lines 170-174: the elbow samples after the reach back
ElbowDataAfter(m, reach_back_frame) ==
    Sorted(SelectSeqIdx(m["elbow_angle"],
                        [j \in 1..Len(m["elbow_angle"]) |->
                            m["elbow_angle"][j].frame > reach_back_frame]))

EnoughPointsFromTen(elbow_data) == Len(elbow_data) >= MIN_POINTS

\* form_metrics.py line 176
EnoughPoints(elbow_data) == Len(elbow_data) > MIN_POINTS

\* form_metrics.py lines 177-188
ReleaseMoment(elbow_data) ==
    LET angles == [j \in 1..Len(elbow_data) |-> elbow_data[j].value]
        angle_accel == Diff(Diff(angles))
        max_accel_idx == ArgMaxAbs(angle_accel) - 1
    IN  [frame |-> elbow_data[max_accel_idx + 2].frame,
         elbow_angle |-> elbow_data[max_accel_idx + 2].value]

\* form_metrics.py lines 151-190
identify_key_moments(m) ==
    LET with_reach_back == HasSamples(m, "elbow_angle")
        reach_back_frame == IF with_reach_back THEN ReachBackMoment(m).frame ELSE 0
        with_release ==
            /\ HasSamples(m, "elbow_angle")
            /\ HasSamples(m, "reach_back_extension")
            /\ EnoughPoints(ElbowDataAfter(m, reach_back_frame))
        names == (IF with_reach_back THEN {"reach_back"} ELSE {})
                     \cup (IF with_release THEN {"release"} ELSE {})
    IN  [name \in names |->
            IF name = "reach_back" THEN ReachBackMoment(m)
            ELSE ReleaseMoment(ElbowDataAfter(m, reach_back_frame))]

\* form_metrics.py line 147
WithKeyMoments(m) ==
    [name \in DOMAIN m \cup {"key_moments"} |->
        IF name = "key_moments" THEN identify_key_moments(m) ELSE m[name]]

\* model_generator.py lines 60-77
DefaultPhase == [frame_range |-> <<0, 0>>, key_metrics |-> NoDict]

DefaultPhases ==
    [reach_back |-> DefaultPhase, pull_through |-> DefaultPhase,
     release |-> DefaultPhase, follow_through |-> DefaultPhase]

\* identify_throw_phases has not been called
NoPhases == [status |-> "none"]

\* model_generator.py line 79
KeyMomentsOf(m) == IF "key_moments" \in DOMAIN m THEN m["key_moments"] ELSE NoDict

\* model_generator.py lines 82-85
AllFrames(m) ==
    UNION {{m[name][j].frame : j \in 1..Len(m[name])} : name \in DOMAIN m \ {"key_moments"}}

SetMin(S) == CHOOSE x \in S : \A y \in S : x <= y

SetMax(S) == CHOOSE x \in S : \A y \in S : x >= y

\* model_generator.py lines 96, 111, 116 and 131, "if reach_back_frame:": the
\* frame is there and is not 0
FrameIsTruthy(km, name) == name \in DOMAIN km /\ km[name].frame # 0

\* model_generator.py lines 102-107 and 123-128: the first value of each
\* metric at the frame
KeyMetricsAt(m, frame) ==
    LET at(name) == SelectSeqIdx(m[name], [j \in 1..Len(m[name]) |-> m[name][j].frame = frame])
        names == {name \in DOMAIN m \ {"key_moments"} : at(name) # <<>>}
    IN  [name \in names |-> at(name)[1].value]

\* model_generator.py line 131
UsesQuartileSplit(m) ==
    /\ ~FrameIsTruthy(KeyMomentsOf(m), "reach_back")
    /\ ~FrameIsTruthy(KeyMomentsOf(m), "release")

\* model_generator.py lines 132-138
\* the quartile split with the quarter taken of the last frame number
\* instead of the frame span
QuartileRangesOfLastFrame(min_frame, max_frame) ==
    LET quarter == max_frame \div 4
    IN  [reach_back     |-> <<min_frame, min_frame + quarter>>,
         pull_through   |-> <<min_frame + quarter, min_frame + 2 * quarter>>,
         release        |-> <<min_frame + 2 * quarter, min_frame + 3 * quarter>>,
         follow_through |-> <<min_frame + 3 * quarter, max_frame>>]

QuartileRanges(min_frame, max_frame) ==
    LET quarter == (max_frame - min_frame) \div 4
    IN  [reach_back     |-> <<min_frame, min_frame + quarter>>,
         pull_through   |-> <<min_frame + quarter, min_frame + 2 * quarter>>,
         release        |-> <<min_frame + 2 * quarter, min_frame + 3 * quarter>>,
         follow_through |-> <<min_frame + 3 * quarter, max_frame>>]

\* model_generator.py lines 58-140
identify_throw_phases(m) ==
    IF AllFrames(m) = {} THEN DefaultPhases
    ELSE
    LET key_moments == KeyMomentsOf(m)
        min_frame == SetMin(AllFrames(m))
        max_frame == SetMax(AllFrames(m))
        with_reach_back == FrameIsTruthy(key_moments, "reach_back")
        with_release == FrameIsTruthy(key_moments, "release")
        reach_back_frame == key_moments["reach_back"].frame
        release_frame == key_moments["release"].frame
        quartile == QuartileRanges(min_frame, max_frame)
    IN  [reach_back |->
            [frame_range |->
                IF with_reach_back
                THEN <<Max(min_frame, reach_back_frame - REACH_BACK_LEAD), reach_back_frame>>
                ELSE IF UsesQuartileSplit(m) THEN quartile.reach_back
                ELSE <<0, 0>>,
             key_metrics |->
                IF with_reach_back THEN KeyMetricsAt(m, reach_back_frame) ELSE NoDict],
         pull_through |->
            [frame_range |->
                IF with_release /\ with_reach_back
                THEN <<reach_back_frame, release_frame - RELEASE_HALF_WIDTH>>
                ELSE IF UsesQuartileSplit(m) THEN quartile.pull_through
                ELSE <<0, 0>>,
             key_metrics |-> NoDict],
         release |->
            [frame_range |->
                IF with_release
                THEN <<release_frame - RELEASE_HALF_WIDTH, release_frame + RELEASE_HALF_WIDTH>>
                ELSE IF UsesQuartileSplit(m) THEN quartile.release
                ELSE <<0, 0>>,
             key_metrics |->
                IF with_release THEN KeyMetricsAt(m, release_frame) ELSE NoDict],
         follow_through |->
            [frame_range |->
                IF with_release
                THEN <<release_frame + RELEASE_HALF_WIDTH, max_frame>>
                ELSE IF UsesQuartileSplit(m) THEN quartile.follow_through
                ELSE <<0, 0>>,
             key_metrics |-> NoDict]]

\* no model or user record has been built
NoModel == [by |-> "none"]

\* del d[name]
DelKey(d, name) == [k \in DOMAIN d \ {name} |-> d[k]]

\* d[name] = value
SetKey(d, name, value) == [k \in DOMAIN d \cup {name} |-> IF k = name THEN value ELSE d[k]]

\* model_generator.py lines 34-45: the dictionary that is written (without
\* its date_created); its 'metrics' is the very mapping that was passed in,
\* so the entry deleted from it at line 45 is gone from both
ProModel(m, pro_name, throw_type) ==
    [pro_name    |-> pro_name,
     throw_type  |-> throw_type,
     phases      |-> identify_throw_phases(m),
     metrics     |-> DelKey(m, "key_moments"),
     key_moments |-> KeyMomentsOf(m)]

\* pro_form_analyzer.py lines 137-145, the same with the local metrics
UserModel(m) ==
    [metrics     |-> DelKey(m, "key_moments"),
     key_moments |-> KeyMomentsOf(m),
     phases      |-> identify_throw_phases(m)]

(***************************************************************************)
(* The pipeline: a pose list is handed to the keyframe detector, then to   *)
(* the analyzer, and the metrics to the feedback generator, as in          *)
(* app.py lines 346-362.                                                   *)
(***************************************************************************)
NoFeedback ==
    [pose_tips |-> <<>>, priority_focus |-> "", strengths |-> <<>>, overall_score |-> 0]

NoScores == [k \in {} |-> ""]

\* no analyzer object exists yet
AnalyzerIdle ==
    /\ analyzer = NoAnalyzer
    /\ metrics_again = DefaultMetrics

\* extract_poses_from_video has not been called
ExtractIdle ==
    /\ extract_pc = "idle"
    /\ extract_args = [video_frames |-> 0]
    /\ frame_count = 0
    /\ reads = 0

\* compare_with_pro has not been called
CompareIdle ==
    /\ user_metrics = <<>>
    /\ pro_metrics = <<>>
    /\ comparison = NoComparison

\* unwrap_angles has not been called
UnwrapIdle ==
    /\ angle_series = <<>>
    /\ unwrapped = <<>>

\* the form-model pipeline has not been started
PhaseIdle ==
    /\ form_metrics = NoDict
    /\ phases = NoPhases
    /\ model = NoModel

\* no request is being handled
HandlerIdle ==
    /\ pc = "idle"
    /\ request = [has_video |-> FALSE]
    /\ pose_extractor = "None"
    /\ close_calls = 0
    /\ response = [status |-> 0]

\* the pose pipeline before its first step, apart from the pose list
PipelineStart ==
    /\ stage = "extracted"
    /\ keyframes = NoKeyframes
    /\ handedness = "right"
    /\ metrics = DefaultMetrics
    /\ skill_level = "intermediate"
    /\ metric_scores = NoScores
    /\ tips = <<>>
    /\ strengths = <<>>
    /\ feedback = NoFeedback

Init ==
    /\ \E n \in 0..MaxPoses, repeat \in {1, 2} :
          \E lms \in [1..n -> LandmarkSets] : poses = PoseList(lms, repeat)
    /\ PipelineStart
    /\ AnalyzerIdle
    /\ ExtractIdle
    /\ CompareIdle
    /\ UnwrapIdle
    /\ PhaseIdle
    /\ HandlerIdle

GetKeyframeIndices ==
    /\ stage = "extracted"
    /\ keyframes' = get_keyframe_indices(poses)
    /\ stage' = "keyframed"
    /\ UNCHANGED <<poses, handedness, metrics, skill_level, metric_scores, tips,
                   strengths, feedback>>
    /\ UNCHANGED <<analyzerVars, compareVars, unwrapVars, phaseVars, handlerVars, extractVars>>

\* app.py lines 355-356: a new analyzer is constructed and analyze is called
Analyze(h) ==
    /\ stage = "keyframed"
    /\ handedness' = h
    /\ metrics' = analyze(poses, BiomechanicsAnalyzer(h).handedness)
    /\ analyzer' = AnalyzerAfterAnalyze(BiomechanicsAnalyzer(h))
    /\ stage' = "analyzed"
    /\ UNCHANGED <<poses, keyframes, skill_level, metric_scores, tips, strengths,
                   feedback, metrics_again>>
    /\ UNCHANGED <<compareVars, unwrapVars, phaseVars, handlerVars, extractVars>>

\* analyze is called a second time on the same poses, either on the analyzer
\* of the first call or on a second analyzer of the same handedness
AnalyzeAgain(fresh) ==
    /\ stage = "analyzed"
    /\ LET self == IF fresh THEN BiomechanicsAnalyzer(handedness) ELSE analyzer
       IN  /\ metrics_again' = analyze(poses, self.handedness)
           /\ analyzer' = AnalyzerAfterAnalyze(self)
    /\ stage' = "reanalyzed"
    /\ UNCHANGED <<poses, keyframes, handedness, metrics, skill_level, metric_scores,
                   tips, strengths, feedback>>
    /\ UNCHANGED <<compareVars, unwrapVars, phaseVars, handlerVars, extractVars>>

GenerateFeedback(skill) ==
    /\ stage = "analyzed"
    /\ skill_level' = skill
    /\ metric_scores' = MetricScores(to_dict(metrics), skill)
    /\ tips' = TipsOf(metrics, skill)
    /\ strengths' = StrengthsOf(metrics, skill)
    /\ feedback' = generate_feedback(metrics, skill)
    /\ stage' = "done"
    /\ UNCHANGED <<poses, keyframes, handedness, metrics>>
    /\ UNCHANGED <<analyzerVars, compareVars, unwrapVars, phaseVars, handlerVars, extractVars>>

Next ==
    \/ GetKeyframeIndices
    \/ \E h \in Handednesses : Analyze(h)
    \/ \E skill \in SkillLevels : GenerateFeedback(skill)

Spec == Init /\ [][Next]_vars

(***************************************************************************)
(* The analyzer called twice on the same pose list.                        *)
(***************************************************************************)
NextReanalyze ==
    \/ GetKeyframeIndices
    \/ \E h \in Handednesses : Analyze(h)
    \/ \E fresh \in BOOLEAN : AnalyzeAgain(fresh)

SpecReanalyze == Init /\ [][NextReanalyze]_vars

(***************************************************************************)
(* The feedback generator on its own: generate_feedback applied to a       *)
(* metrics record drawn from values around every scaled threshold.         *)
(* Degree values are in millidegrees and include values that are not       *)
(* multiples of a tenth of a degree.                                       *)
(***************************************************************************)
ReachbackValues == {0, 39, 40, 50, 57, 58, 60, 75, 86, 100}

FollowThroughValues == {10, 49, 60, 74, 87}

WeightShiftValues == {0, 40, 59, 75, 100}

HipRotationValues == {0, 23960, 29940, 29960, 34500, 45000, 51740, 51760, 90000}

ShoulderSeparationValues == {0, 19960, 25000, 28740, 29960, 32000, 45960, 90000}

MetricsRecords ==
    [reachback_depth_score       : ReachbackValues,
     hip_rotation_degrees        : HipRotationValues,
     shoulder_separation_degrees : ShoulderSeparationValues,
     follow_through_score        : FollowThroughValues,
     weight_shift_score          : WeightShiftValues]

InitFeedback ==
    /\ poses = <<>>
    /\ stage = "analyzed"
    /\ keyframes = NoKeyframes
    /\ handedness = "right"
    /\ metrics \in MetricsRecords
    /\ skill_level = "intermediate"
    /\ metric_scores = NoScores
    /\ tips = <<>>
    /\ strengths = <<>>
    /\ feedback = NoFeedback
    /\ AnalyzerIdle
    /\ ExtractIdle
    /\ CompareIdle
    /\ UnwrapIdle
    /\ PhaseIdle
    /\ HandlerIdle

NextFeedback == \E skill \in SkillLevels : GenerateFeedback(skill)

SpecFeedback == InitFeedback /\ [][NextFeedback]_vars

(***************************************************************************)
(* compare_with_pro applied to a user's metrics and a reference model.     *)
(* The user has a shoulder_rotation series and one more entry; each        *)
(* reference series is the user's own, the user's with its frames          *)
(* stretched, the user's with its values moved, the user's first sample,   *)
(* a series of its own, or is missing from the model.                      *)
(***************************************************************************)
MaxSamples == 3

FrameValues == {0, 50, 100}

SampleValues == {0, 90}

SecondMetrics == {"disc_speed", "reach_back_extension", "key_moments"}

Transforms == {"same", "stretched", "moved", "first", "own", "absent"}

SeriesOf(frames, values) ==
    [i \in 1..Len(frames) |-> [frame |-> frames[i], value |-> values[i]]]

\* frames as calculate_metrics produces them: strictly increasing
RECURSIVE IncreasingFrames(_)
IncreasingFrames(F) ==
    IF F = {} THEN <<>> ELSE <<SetMin(F)>> \o IncreasingFrames(F \ {SetMin(F)})

ScaleFrames(series, c) ==
    [i \in 1..Len(series) |-> [frame |-> c * series[i].frame, value |-> series[i].value]]

OwnSeries ==
    << [frame |-> 0, value |-> 0], [frame |-> 40, value |-> 90],
       [frame |-> 100, value |-> 400] >>

ReferenceSeries(transform, series) ==
    CASE transform = "same" -> series
      [] transform = "stretched" -> ScaleFrames(series, 2)
      [] transform = "moved" ->
            [i \in 1..Len(series) |->
                [frame |-> series[i].frame, value |-> series[i].value + 200]]
      [] transform = "first" -> Take(series, 1)
      [] transform = "own" -> OwnSeries

\* the dictionary with the given keys and values, without the keys left out
Dict2(k1, v1, keep1, k2, v2, keep2) ==
    [k \in (IF keep1 THEN {k1} ELSE {}) \cup (IF keep2 THEN {k2} ELSE {}) |->
        IF k = k1 THEN v1 ELSE v2]

InitCompare ==
    /\ \E F1, F2 \in {F \in SUBSET FrameValues : Cardinality(F) <= MaxSamples} :
          \E v1 \in [1..Cardinality(F1) -> SampleValues],
             v2 \in [1..Cardinality(F2) -> SampleValues],
             second \in SecondMetrics, t1, t2 \in Transforms :
             LET f1 == IncreasingFrames(F1)
                 f2 == IncreasingFrames(F2)
             IN /\ user_metrics = Dict2("shoulder_rotation", SeriesOf(f1, v1), TRUE,
                                        second, SeriesOf(f2, v2), TRUE)
                /\ pro_metrics =
                      Dict2("shoulder_rotation",
                            IF t1 = "absent" THEN <<>>
                            ELSE ReferenceSeries(t1, SeriesOf(f1, v1)),
                            t1 # "absent",
                            second,
                            IF t2 = "absent" THEN <<>>
                            ELSE ReferenceSeries(t2, SeriesOf(f2, v2)),
                            t2 # "absent" /\ second # "key_moments")
    /\ comparison = NoComparison
    /\ poses = <<>>
    /\ PipelineStart
    /\ AnalyzerIdle
    /\ ExtractIdle
    /\ UnwrapIdle
    /\ PhaseIdle
    /\ HandlerIdle

CompareWithPro ==
    /\ comparison = NoComparison
    /\ comparison' = compare_with_pro(user_metrics, pro_metrics)
    /\ UNCHANGED <<user_metrics, pro_metrics>>
    /\ UNCHANGED <<pipelineVars, analyzerVars, unwrapVars, phaseVars, handlerVars, extractVars>>

NextCompare == CompareWithPro

SpecCompare == InitCompare /\ [][NextCompare]_vars

(***************************************************************************)
(* unwrap_angles applied, as in calculate_metrics, to the shoulder angles  *)
(* of a sequence of frames.  Each frame contributes the direction          *)
(* <<dy, dx>> from the left to the right shoulder.                         *)
(***************************************************************************)
MaxAngles == 3

Directions ==
    { <<0, 0 - 20>>, <<0 - 10, 0 - 20>>, <<10, 0 - 20>>, <<0, 10>>, <<20, 0>>,
      <<0 - 20, 0 - 20>> }

InitUnwrap ==
    /\ \E n \in 1..MaxAngles :
          \E dirs \in [1..n -> Directions] :
              angle_series = [i \in 1..n |-> arctan2_degrees(dirs[i][1], dirs[i][2])]
    /\ unwrapped = <<>>
    /\ poses = <<>>
    /\ PipelineStart
    /\ AnalyzerIdle
    /\ ExtractIdle
    /\ CompareIdle
    /\ PhaseIdle
    /\ HandlerIdle

\* form_metrics.py line 135
UnwrapAngles ==
    /\ unwrapped = <<>>
    /\ unwrapped' = unwrap_angles(angle_series)
    /\ UNCHANGED angle_series
    /\ UNCHANGED <<pipelineVars, analyzerVars, compareVars, phaseVars, handlerVars, extractVars>>

NextUnwrap == UnwrapAngles

SpecUnwrap == InitUnwrap /\ [][NextUnwrap]_vars

(***************************************************************************)
(* The keyframe detector and the analyzer on pose lists made for the       *)
(* reachback score: every frame gives the right wrist and the right        *)
(* shoulder an x position (the left side is the mirror image), or leaves   *)
(* the shoulders out.                                                      *)
(***************************************************************************)
MaxReachPoses == 5

\* landmarks with the right wrist at wx and, when with_shoulder, the right
\* shoulder at sx
ReachLandmarks(wx, sx, with_shoulder) ==
    [n \in {"left_wrist", "right_wrist"}
           \cup (IF with_shoulder THEN {"left_shoulder", "right_shoulder"} ELSE {}) |->
        CASE n = "right_wrist"    -> Pt(wx, 50)
          [] n = "left_wrist"     -> Pt(100 - wx, 50)
          [] n = "right_shoulder" -> Pt(sx, 30)
          [] n = "left_shoulder"  -> Pt(100 - sx, 30)]

ReachLandmarkSets ==
    { ReachLandmarks(50, 50, TRUE), ReachLandmarks(45, 50, TRUE),
      ReachLandmarks(40, 50, TRUE), ReachLandmarks(35, 50, TRUE),
      ReachLandmarks(25, 50, TRUE), ReachLandmarks(60, 50, TRUE),
      ReachLandmarks(20, 50, FALSE) }

\* the ten synthetic frames of the specification's scenario
ScenarioWristX == <<50, 50, 50, 30, 10, 5, 20, 50, 70, 80>>

ScenarioPoses ==
    PoseList([i \in 1..Len(ScenarioWristX) |->
                 ReachLandmarks(ScenarioWristX[i], 50, TRUE)], 1)

InitReachback ==
    /\ \/ \E n \in 0..MaxReachPoses :
             \E lms \in [1..n -> ReachLandmarkSets] : poses = PoseList(lms, 1)
       \/ poses = ScenarioPoses
    /\ PipelineStart
    /\ AnalyzerIdle
    /\ ExtractIdle
    /\ CompareIdle
    /\ UnwrapIdle
    /\ PhaseIdle
    /\ HandlerIdle

NextReachback ==
    \/ GetKeyframeIndices
    \/ \E h \in Handednesses : Analyze(h)

SpecReachback == InitReachback /\ [][NextReachback]_vars

(***************************************************************************)
(* The /analyze-pose handler (app.py, analyze_pose).  pc is the statement  *)
(* the handler is at.  A request says whether the video part is there,     *)
(* whether min_confidence parses as a float, the handedness and skill      *)
(* level, whether the disc detector finds the disc, and at which call, if  *)
(* any, an exception is raised.                                            *)
(***************************************************************************)
MaxHandlerPoses == 3

Faults ==
    {"none", "save", "trajectory", "construct", "extract", "keyframes", "analyze",
     "feedback", "close"}

Requests ==
    [has_video      : BOOLEAN,
     min_confidence : {"valid", "invalid"},
     handedness     : Handednesses,
     skill_level    : SkillLevels,
     disc_detected  : BOOLEAN,
     fault          : Faults]

HandlerLandmarkSets == {NoLandmarks, LmSetup, LmReach}

\* line 301 and line 320: a body with nothing but the error message
ErrorOnlyBody(message) == [error |-> message]

\* lines 406-425
DegradedBody ==
    [error      |-> "Error during pose analysis",
     trajectory |-> [flightPath |-> "error", distance |-> 0, maxHeight |-> 0,
                     releaseAngle |-> 0,
                     techniqueFeedback |-> <<"Analysis error">>],
     pose       |-> [detected |-> FALSE, metrics |-> <<>>, keyframes |-> <<>>],
     feedback   |-> [pose_tips |-> <<"An error occurred during analysis.">>,
                     priority_focus |-> "error", strengths |-> <<>>,
                     overall_score |-> 0]]

\* lines 372-377
NoPoseFeedback ==
    [pose_tips |-> <<"Unable to detect body pose. Ensure full body is visible.">>,
     priority_focus |-> "visibility", strengths |-> <<>>, overall_score |-> 0]

\* lines 327-337: the trajectory part, the disc detector being a black box
TrajectoryOf(req) ==
    IF req.disc_detected
    THEN [flightPath |-> "analyzed", techniqueFeedback |-> <<"trajectory feedback">>]
    ELSE [flightPath |-> "unknown", distance |-> 0, maxHeight |-> 0,
          releaseAngle |-> 0,
          techniqueFeedback |-> <<"Unable to detect disc clearly.">>]

\* lines 383-398
ResultBody(req, ps, kf, m, fb) ==
    [trajectory       |-> TrajectoryOf(req),
     pose             |-> [detected  |-> DetectedPoses(ps) # <<>>,
                           metrics   |-> to_dict(m),
                           keyframes |-> kf],
     feedback         |-> fb,
     processingTimeMs |-> 0]

InitHandler ==
    /\ request \in Requests
    /\ pc = "check_video"
    /\ pose_extractor = "None"
    /\ close_calls = 0
    /\ response = [status |-> 0]
    /\ poses = <<>>
    /\ PipelineStart
    /\ AnalyzerIdle
    /\ ExtractIdle
    /\ CompareIdle
    /\ UnwrapIdle
    /\ PhaseIdle

\* what no step of the handler touches
HandlerFrame ==
    /\ UNCHANGED <<stage, metric_scores, tips, strengths, request>>
    /\ UNCHANGED <<analyzerVars, compareVars, unwrapVars, phaseVars, extractVars>>

\* lines 299-301
CheckVideo ==
    /\ pc = "check_video"
    /\ IF ~request.has_video
       THEN /\ response' = [status |-> 400, body |-> ErrorOnlyBody("No video file provided")]
            /\ pc' = "finally"
       ELSE /\ pc' = "parse_params"
            /\ UNCHANGED response
    /\ UNCHANGED <<poses, keyframes, handedness, metrics, skill_level, feedback,
                   pose_extractor, close_calls>>
    /\ HandlerFrame

\* lines 307-309: float() raises ValueError on a min_confidence that is not
\* a number
ParseParams ==
    /\ pc = "parse_params"
    /\ IF request.min_confidence = "invalid"
       THEN /\ pc' = "except"
            /\ UNCHANGED <<handedness, skill_level>>
       ELSE /\ handedness' = request.handedness
            /\ skill_level' = request.skill_level
            /\ pc' = "save_video"
    /\ UNCHANGED <<poses, keyframes, metrics, feedback, pose_extractor, close_calls,
                   response>>
    /\ HandlerFrame

\* lines 312-320
SaveVideo ==
    /\ pc = "save_video"
    /\ IF request.fault = "save"
       THEN /\ response' = [status |-> 500, body |-> ErrorOnlyBody("Error saving video")]
            /\ pc' = "finally"
       ELSE /\ pc' = "trajectory"
            /\ UNCHANGED response
    /\ UNCHANGED <<poses, keyframes, handedness, metrics, skill_level, feedback,
                   pose_extractor, close_calls>>
    /\ HandlerFrame

\* lines 324-337
Trajectory ==
    /\ pc = "trajectory"
    /\ pc' = IF request.fault = "trajectory" THEN "except" ELSE "construct"
    /\ UNCHANGED <<poses, keyframes, handedness, metrics, skill_level, feedback,
                   pose_extractor, close_calls, response>>
    /\ HandlerFrame

\* lines 341-344: the name pose_extractor is bound only when the constructor
\* returns
ConstructExtractor ==
    /\ pc = "construct"
    /\ IF request.fault = "construct"
       THEN /\ pc' = "except"
            /\ UNCHANGED pose_extractor
       ELSE /\ pose_extractor' = "open"
            /\ pc' = "extract"
    /\ UNCHANGED <<poses, keyframes, handedness, metrics, skill_level, feedback,
                   close_calls, response>>
    /\ HandlerFrame

\* line 346: the extractor returns some pose list, or raises (a video that
\* cannot be opened raises ValueError)
ExtractPoses ==
    /\ pc = "extract"
    /\ IF request.fault = "extract"
       THEN /\ pc' = "except"
            /\ UNCHANGED poses
       ELSE /\ \E n \in 0..MaxHandlerPoses :
                  \E lms \in [1..n -> HandlerLandmarkSets] : poses' = PoseList(lms, 1)
            /\ pc' = "keyframes"
    /\ UNCHANGED <<keyframes, handedness, metrics, skill_level, feedback,
                   pose_extractor, close_calls, response>>
    /\ HandlerFrame

\* line 347
HandlerKeyframes ==
    /\ pc = "keyframes"
    /\ IF request.fault = "keyframes"
       THEN /\ pc' = "except"
            /\ UNCHANGED keyframes
       ELSE /\ keyframes' = get_keyframe_indices(poses)
            /\ pc' = "analyze"
    /\ UNCHANGED <<poses, handedness, metrics, skill_level, feedback, pose_extractor,
                   close_calls, response>>
    /\ HandlerFrame

\* lines 349-357, and 363-371 when no pose was detected (every metric 0)
HandlerAnalyze ==
    /\ pc = "analyze"
    /\ IF DetectedPoses(poses) # <<>>
       THEN IF request.fault = "analyze"
            THEN /\ pc' = "except"
                 /\ UNCHANGED metrics
            ELSE /\ metrics' = analyze(poses, BiomechanicsAnalyzer(handedness).handedness)
                 /\ pc' = "feedback"
       ELSE /\ metrics' = DefaultMetrics
            /\ pc' = "feedback"
    /\ UNCHANGED <<poses, keyframes, handedness, skill_level, feedback, pose_extractor,
                   close_calls, response>>
    /\ HandlerFrame

\* lines 360-362, and 372-377 when no pose was detected
HandlerFeedback ==
    /\ pc = "feedback"
    /\ IF DetectedPoses(poses) # <<>>
       THEN IF request.fault = "feedback"
            THEN /\ pc' = "except"
                 /\ UNCHANGED feedback
            ELSE /\ feedback' = generate_feedback(metrics, skill_level)
                 /\ pc' = "respond"
       ELSE /\ feedback' = NoPoseFeedback
            /\ pc' = "respond"
    /\ UNCHANGED <<poses, keyframes, handedness, metrics, skill_level, pose_extractor,
                   close_calls, response>>
    /\ HandlerFrame

\* lines 380-400
Respond ==
    /\ pc = "respond"
    /\ response' = [status |-> 200,
                    body |-> ResultBody(request, poses, keyframes, metrics, feedback)]
    /\ pc' = "finally"
    /\ UNCHANGED <<poses, keyframes, handedness, metrics, skill_level, feedback,
                   pose_extractor, close_calls>>
    /\ HandlerFrame

\* lines 402-426: the status the except block answers with
ExceptStatus == 500

Except ==
    /\ pc = "except"
    /\ response' = [status |-> ExceptStatus, body |-> DegradedBody]
    /\ pc' = "finally"
    /\ UNCHANGED <<poses, keyframes, handedness, metrics, skill_level, feedback,
                   pose_extractor, close_calls>>
    /\ HandlerFrame

CloseNeededOnSuccess(extractor, resp) == extractor # "None" /\ resp.status = 200

\* line 430
CloseNeeded(extractor, resp) == extractor # "None"

\* lines 428-444: close() is called on the extractor if there is one, an
\* exception it raises is logged, and the temporary files are removed
Finally ==
    /\ pc = "finally"
    /\ IF CloseNeeded(pose_extractor, response)
       THEN /\ close_calls' = close_calls + 1
            /\ pose_extractor' = IF request.fault = "close" THEN "close_failed"
                                                            ELSE "closed"
       ELSE UNCHANGED <<close_calls, pose_extractor>>
    /\ pc' = "returned"
    /\ UNCHANGED <<poses, keyframes, handedness, metrics, skill_level, feedback,
                   response>>
    /\ HandlerFrame

NextHandler ==
    \/ CheckVideo
    \/ ParseParams
    \/ SaveVideo
    \/ Trajectory
    \/ ConstructExtractor
    \/ ExtractPoses
    \/ HandlerKeyframes
    \/ HandlerAnalyze
    \/ HandlerFeedback
    \/ Respond
    \/ Except
    \/ Finally

SpecHandler == InitHandler /\ [][NextHandler]_vars

(***************************************************************************)
(* Key moments and throw phases.  calculate_metrics has built the series   *)
(* of a video; the key moments are stored in the mapping and the phases    *)
(* are identified from it (pro_form_analyzer.py lines 108 and 140,         *)
(* model_generator.py line 31).  The elbow series has its least value at   *)
(* sample low and bends upwards from sample bend on; the extension series, *)
(* when there is one, has one sample more.                                 *)
(***************************************************************************)
MaxElbowSamples == 13

\* pose_extractor.py line 46: every second frame is processed
FRAME_STEP == 2

FirstFrames == {0, 4, 20}

FrameAt(first, i) == first + FRAME_STEP * (i - 1)

ElbowSeries(n, first, low, bend) ==
    [i \in 1..n |->
        [frame |-> FrameAt(first, i),
         value |-> IF i = low THEN 30 ELSE IF i < bend THEN 90 ELSE 90 + 20 * (i - bend)]]

ExtensionSeries(n, first) ==
    [i \in 1..(n + 1) |-> [frame |-> FrameAt(first, i), value |-> 10 * i]]

\* form_metrics.py lines 128-144: a metric without samples is left out
ProcessedMetrics(elbow, extension) ==
    LET names == (IF elbow # <<>> THEN {"elbow_angle"} ELSE {})
                     \cup (IF extension # <<>> THEN {"reach_back_extension"} ELSE {})
    IN  [name \in names |-> IF name = "elbow_angle" THEN elbow ELSE extension]

InitPhases ==
    /\ \E n \in 0..MaxElbowSamples, first \in FirstFrames, with_extension \in BOOLEAN :
          \E low \in 1..Max(n, 1), bend \in 1..Max(n, 1) :
              form_metrics =
                  ProcessedMetrics(ElbowSeries(n, first, low, bend),
                                   IF with_extension THEN ExtensionSeries(n, first)
                                                     ELSE <<>>)
    /\ phases = NoPhases
    /\ model = NoModel
    /\ poses = <<>>
    /\ PipelineStart
    /\ AnalyzerIdle
    /\ ExtractIdle
    /\ CompareIdle
    /\ UnwrapIdle
    /\ HandlerIdle

\* form_metrics.py line 147
IdentifyKeyMoments ==
    /\ "key_moments" \notin DOMAIN form_metrics
    /\ form_metrics' = WithKeyMoments(form_metrics)
    /\ UNCHANGED <<phases, model>>
    /\ UNCHANGED <<pipelineVars, analyzerVars, compareVars, unwrapVars, handlerVars, extractVars>>

\* model_generator.py line 31, pro_form_analyzer.py line 140
IdentifyThrowPhases ==
    /\ "key_moments" \in DOMAIN form_metrics
    /\ phases = NoPhases
    /\ phases' = identify_throw_phases(form_metrics)
    /\ UNCHANGED <<form_metrics, model>>
    /\ UNCHANGED <<pipelineVars, analyzerVars, compareVars, unwrapVars, handlerVars, extractVars>>

NextPhases ==
    \/ IdentifyKeyMoments
    \/ IdentifyThrowPhases

SpecPhases == InitPhases /\ [][NextPhases]_vars

(***************************************************************************)
(* Building a reference model or a user record from the metrics of a       *)
(* video.  form_metrics is the mapping calculate_metrics returned, which   *)
(* the caller of create_pro_model passes in and keeps, and which           *)
(* analyze_user_video returns.                                             *)
(***************************************************************************)
ThrowTypes == {"backhand", "forehand"}

\* what the speed analyzer may report: nothing, or a speed at some frame
DiscSpeeds == {<<>>, <<[frame |-> 0, value |-> 50]>>, <<[frame |-> 30, value |-> 60]>>}

\* model_generator.py lines 26-56
CreateProModel(throw_type) ==
    /\ "key_moments" \in DOMAIN form_metrics
    /\ model = NoModel
    /\ phases' = identify_throw_phases(form_metrics)
    /\ model' = [by |-> "create_pro_model",
                 file |-> ProModel(form_metrics, "pro", throw_type)]
    /\ form_metrics' = ProModel(form_metrics, "pro", throw_type).metrics
    /\ UNCHANGED <<pipelineVars, analyzerVars, compareVars, unwrapVars, handlerVars, extractVars>>

\* pro_form_analyzer.py lines 108-157: after calculate_metrics, the disc
\* speed is added when there is one, the record is written when an output
\* path was given, and the metrics are returned
AnalyzeUserVideo(speed, with_output) ==
    /\ "key_moments" \in DOMAIN form_metrics
    /\ model = NoModel
    /\ LET with_speed == IF speed # <<>> THEN SetKey(form_metrics, "disc_speed", speed)
                                          ELSE form_metrics
       IN  IF with_output
           THEN /\ phases' = identify_throw_phases(with_speed)
                /\ model' = [by |-> "analyze_user_video", file |-> UserModel(with_speed)]
                /\ form_metrics' = UserModel(with_speed).metrics
           ELSE /\ model' = [by |-> "analyze_user_video", file |-> NoDict]
                /\ form_metrics' = with_speed
                /\ UNCHANGED phases
    /\ UNCHANGED <<pipelineVars, analyzerVars, compareVars, unwrapVars, handlerVars, extractVars>>

NextModel ==
    \/ IdentifyKeyMoments
    \/ \E throw_type \in ThrowTypes : CreateProModel(throw_type)
    \/ \E speed \in DiscSpeeds, with_output \in BOOLEAN : AnalyzeUserVideo(speed, with_output)

SpecModel == InitPhases /\ [][NextModel]_vars

(***************************************************************************)
(* extract_poses_from_video (pose/mediapipe_extractor.py).  extract_pc is  *)
(* the statement the call is at.  The video holds video_frames frames:     *)
(* cap.read() gives a frame while frame_count is below that number and     *)
(* ret = False afterwards.  reads counts the calls of cap.read().          *)
(***************************************************************************)
ExtractArgs ==
    [video_frames : 0..MaxVideoFrames,
     max_frames   : 0..MaxFrameLimit,
     sample_rate  : 1..MaxSampleRate,
     available    : BOOLEAN,
     opens        : BOOLEAN]

\* what MediaPipe finds in a frame: nothing, or a body
FoundInFrame == {NoLandmarks, LmSetup}

\* _process_frame: the pose of the frame read, numbered by the loop counter
process_frame(frame_number, lm) ==
    [frame_number |-> frame_number,
     detected     |-> DOMAIN lm # {},
     landmarks    |-> lm]

\* the while condition without the frame limit
WithinLimitNever(count, max_frames) == TRUE

\* the while condition: cap.isOpened() holds until cap.release()
WithinLimit(count, max_frames) == count < max_frames

\* every Nth frame is processed
IsSampled(count, sample_rate) == count % sample_rate = 0

InitExtract ==
    /\ extract_pc = "start"
    /\ extract_args \in ExtractArgs
    /\ frame_count = 0
    /\ reads = 0
    /\ poses = <<>>
    /\ PipelineStart
    /\ AnalyzerIdle
    /\ CompareIdle
    /\ UnwrapIdle
    /\ PhaseIdle
    /\ HandlerIdle

ExtractFrame ==
    UNCHANGED <<stage, keyframes, handedness, metrics, skill_level, metric_scores,
                tips, strengths, feedback, analyzerVars, compareVars,
                unwrapVars, phaseVars, handlerVars, extract_args>>

\* MediaPipe is missing: the empty list is returned
Unavailable ==
    /\ extract_pc = "start"
    /\ ~extract_args.available
    /\ extract_pc' = "returned"
    /\ UNCHANGED <<poses, frame_count, reads>>
    /\ ExtractFrame

\* the capture does not open: ValueError
OpenFails ==
    /\ extract_pc = "start"
    /\ extract_args.available
    /\ ~extract_args.opens
    /\ extract_pc' = "raised"
    /\ UNCHANGED <<poses, frame_count, reads>>
    /\ ExtractFrame

OpenVideo ==
    /\ extract_pc = "start"
    /\ extract_args.available
    /\ extract_args.opens
    /\ extract_pc' = "loop"
    /\ poses' = <<>>
    /\ frame_count' = 0
    /\ UNCHANGED reads
    /\ ExtractFrame

\* the while condition fails: cap.release(), return poses
ReachLimit ==
    /\ extract_pc = "loop"
    /\ ~WithinLimit(frame_count, extract_args.max_frames)
    /\ extract_pc' = "returned"
    /\ UNCHANGED <<poses, frame_count, reads>>
    /\ ExtractFrame

\* cap.read() gives ret = False: break, cap.release(), return poses
VideoEnds ==
    /\ extract_pc = "loop"
    /\ WithinLimit(frame_count, extract_args.max_frames)
    /\ frame_count >= extract_args.video_frames
    /\ reads' = reads + 1
    /\ extract_pc' = "returned"
    /\ UNCHANGED <<poses, frame_count>>
    /\ ExtractFrame

\* a frame is read and passed over
SkipFrame ==
    /\ extract_pc = "loop"
    /\ WithinLimit(frame_count, extract_args.max_frames)
    /\ frame_count < extract_args.video_frames
    /\ ~IsSampled(frame_count, extract_args.sample_rate)
    /\ reads' = reads + 1
    /\ frame_count' = frame_count + 1
    /\ UNCHANGED <<poses, extract_pc>>
    /\ ExtractFrame

\* a frame is read, processed and its pose appended
SampleFrame(lm) ==
    /\ extract_pc = "loop"
    /\ WithinLimit(frame_count, extract_args.max_frames)
    /\ frame_count < extract_args.video_frames
    /\ IsSampled(frame_count, extract_args.sample_rate)
    /\ reads' = reads + 1
    /\ poses' = Append(poses, process_frame(frame_count, lm))
    /\ frame_count' = frame_count + 1
    /\ UNCHANGED extract_pc
    /\ ExtractFrame

NextExtract ==
    \/ Unavailable
    \/ OpenFails
    \/ OpenVideo
    \/ ReachLimit
    \/ VideoEnds
    \/ SkipFrame
    \/ \E lm \in FoundInFrame : SampleFrame(lm)

SpecExtract == InitExtract /\ [][NextExtract]_vars

\* the call runs on its own thread of control and every statement of it
\* completes: a step that can be taken is taken
SpecExtractLive == SpecExtract /\ WF_vars(NextExtract)

(***************************************************************************)
(* Properties of the pose pipeline (specification Spec).                   *)
(***************************************************************************)
Analyzed == stage \in {"analyzed", "done"}

Keyframed == stage \in {"keyframed", "analyzed", "done"}

AllZero(m) ==
    /\ m.reachback_depth_score = 0
    /\ m.hip_rotation_degrees = 0
    /\ m.shoulder_separation_degrees = 0
    /\ m.follow_through_score = 0
    /\ m.weight_shift_score = 0

\* C1: whatever the pose list and the handedness, the metrics returned by
\* analyze have the three scores within 0..100 and the two angles within
\* 0..90 degrees.
C1_MetricsInRange ==
    Analyzed =>
        /\ metrics.reachback_depth_score \in 0..100
        /\ metrics.follow_through_score \in 0..100
        /\ metrics.weight_shift_score \in 0..100
        /\ metrics.hip_rotation_degrees >= 0
        /\ metrics.hip_rotation_degrees <= 90000
        /\ metrics.shoulder_separation_degrees >= 0
        /\ metrics.shoulder_separation_degrees <= 90000

\* analyze ran on a list holding a frame whose shoulder and hip angles are
\* more than 180 degrees apart, a frame without wrists and an undetected
\* frame, and produced a non-zero separation
C1_Witness ==
    /\ stage = "analyzed"
    /\ handedness = "left"
    /\ \E i, j, k \in 1..Len(poses) :
          /\ poses[i].landmarks = LmForward
          /\ poses[j].landmarks = LmNoWrist
          /\ ~poses[k].detected
    /\ metrics.shoulder_separation_degrees > 0
    /\ metrics.hip_rotation_degrees > 0

\* C2: with fewer than three detected poses analyze returns the all-zero
\* metrics record.
C2_InsufficientPosesGiveZero ==
    (Analyzed /\ Len(DetectedPoses(poses)) < 3) => AllZero(metrics)

\* analyze ran on a list of at least three poses of which exactly two are
\* detected
C2_Witness ==
    /\ stage = "analyzed"
    /\ Len(poses) >= 3
    /\ Len(DetectedPoses(poses)) = 2
    /\ AllZero(metrics)

\* C3: the keyframe map is empty when fewer than five poses are detected and
\* holds at least setup, reachback and follow_through otherwise.
C3_KeyframesByDetectedCount ==
    Keyframed =>
        /\ Len(DetectedPoses(poses)) < 5 => keyframes = NoKeyframes
        /\ Len(DetectedPoses(poses)) >= 5 =>
              {"setup", "reachback", "follow_through"} \subseteq DOMAIN keyframes

\* the detector ran on five detected poses and found no release
C3_Witness ==
    /\ stage = "keyframed"
    /\ Len(DetectedPoses(poses)) >= 5
    /\ DOMAIN keyframes = {"setup", "reachback", "follow_through"}

\* C4: when the keyframe map holds both reachback and release, the release
\* frame number is not smaller than the reachback frame number.
C4_ReleaseNotBeforeReachback ==
    (Keyframed /\ {"reachback", "release"} \subseteq DOMAIN keyframes) =>
        keyframes["release"] >= keyframes["reachback"]

\* a release was found after a reachback that is not the first frame
C4_Witness ==
    /\ stage = "keyframed"
    /\ {"reachback", "release"} \subseteq DOMAIN keyframes
    /\ keyframes["reachback"] > keyframes["setup"]
    /\ keyframes["release"] > keyframes["reachback"]

\* the right-wrist x the detector works with: a detected pose without the
\* landmark counts as 0.5
C5_EffectiveX(pose) ==
    IF "right_wrist" \in DOMAIN pose.landmarks
    THEN pose.landmarks["right_wrist"].x ELSE 50

\* C5 as stated: reachback is the frame of a detected pose of minimum wrist x,
\* and a detected pose without the wrist landmark is never the one selected
\* when some detected pose carries the landmark.
C5_MissingWristNeverSelected ==
    (Keyframed /\ "reachback" \in DOMAIN keyframes) =>
        LET dp == DetectedPoses(poses)
        IN  \E i \in 1..Len(dp) :
               /\ dp[i].frame_number = keyframes["reachback"]
               /\ \A j \in 1..Len(dp) : C5_EffectiveX(dp[i]) <= C5_EffectiveX(dp[j])
               /\ (\E j \in 1..Len(dp) : "right_wrist" \in DOMAIN dp[j].landmarks)
                     => "right_wrist" \in DOMAIN dp[i].landmarks

\* C5 amended: reachback is the frame of the first detected pose attaining
\* the minimum of the right-wrist x series in which a missing wrist counts as
\* 0.5; a pose without the landmark is selected exactly when no detected
\* pose has x below 0.5 and no earlier detected pose has x equal to 0.5.
C5_ReachbackIsFirstMinimum ==
    (Keyframed /\ "reachback" \in DOMAIN keyframes) =>
        LET dp == DetectedPoses(poses)
            first == CHOOSE i \in 1..Len(dp) :
                        /\ \A j \in 1..Len(dp) : C5_EffectiveX(dp[i]) <= C5_EffectiveX(dp[j])
                        /\ \A j \in 1..(i - 1) : C5_EffectiveX(dp[j]) > C5_EffectiveX(dp[i])
        IN  /\ keyframes["reachback"] = dp[first].frame_number
            /\ \A i \in 1..Len(dp) :
                  ("right_wrist" \notin DOMAIN dp[i].landmarks) =>
                      (first = i <=>
                          /\ \A j \in 1..Len(dp) : C5_EffectiveX(dp[j]) >= 50
                          /\ \A j \in 1..(i - 1) : C5_EffectiveX(dp[j]) > 50)

\* the detector selected a pose without the right wrist as reachback although
\* other detected poses carry the landmark
C5_Witness ==
    /\ stage = "keyframed"
    /\ "reachback" \in DOMAIN keyframes
    /\ \E i, j \in 1..Len(poses) :
          /\ poses[i].detected
          /\ poses[i].frame_number = keyframes["reachback"]
          /\ "right_wrist" \notin DOMAIN poses[i].landmarks
          /\ poses[j].detected
          /\ "right_wrist" \in DOMAIN poses[j].landmarks
          /\ \A k \in 1..Len(poses) :
                poses[k].frame_number = poses[i].frame_number => k = i

\* the position, counted from 1, of the reachback among the detected poses
C23_ReachbackPosition ==
    LET dp == DetectedPoses(poses)
    IN  CHOOSE i \in 1..Len(dp) :
            /\ \A j \in 1..Len(dp) : C5_EffectiveX(dp[i]) <= C5_EffectiveX(dp[j])
            /\ \A j \in 1..(i - 1) : C5_EffectiveX(dp[j]) > C5_EffectiveX(dp[i])

\* the step of greatest wrist-x increase from the reachback on, the first
\* one on a tie: the step from position j to position j + 1
C23_PeakStep ==
    LET dp == DetectedPoses(poses)
        step(k) == C5_EffectiveX(dp[k + 1]) - C5_EffectiveX(dp[k])
        from == C23_ReachbackPosition
    IN  CHOOSE j \in from..(Len(dp) - 1) :
            /\ \A k \in from..(Len(dp) - 1) : step(j) >= step(k)
            /\ \A k \in from..(j - 1) : step(k) < step(j)

\* C23: with n detected poses (at least 5) and the reachback at index i
\* counted from 0, if n > i + 2 the release is the frame number of the
\* detected pose at index min(i + 1 + argmax of the first differences of
\* wrist x over i..n-1, n - 1); otherwise the map has no release key and
\* still has setup, reachback and follow_through.
C23_ReleaseAtPeakVelocity ==
    (Keyframed /\ Len(DetectedPoses(poses)) >= 5) =>
        LET dp == DetectedPoses(poses)
            n == Len(dp)
            i == C23_ReachbackPosition - 1
        IN  IF n > i + 2
            THEN /\ "release" \in DOMAIN keyframes
                 /\ keyframes["release"] =
                        dp[Min(i + 1 + (C23_PeakStep - C23_ReachbackPosition), n - 1) + 1].frame_number
            ELSE DOMAIN keyframes = {"setup", "reachback", "follow_through"}

\* the release was found two poses or more after a reachback that is not
\* the first pose: the peak is not the first step
C23_Witness ==
    /\ stage = "keyframed"
    /\ Len(DetectedPoses(poses)) >= 5
    /\ "release" \in DOMAIN keyframes
    /\ C23_ReachbackPosition > 1
    /\ C23_PeakStep > C23_ReachbackPosition
    /\ keyframes["release"] > keyframes["reachback"] + SAMPLE_RATE

\* five poses were detected and the reachback is the last but one
C23_WitnessNoRelease ==
    /\ stage = "keyframed"
    /\ Len(DetectedPoses(poses)) >= 5
    /\ C23_ReachbackPosition = Len(DetectedPoses(poses)) - 1
    /\ "release" \notin DOMAIN keyframes

\* the poses _calculate_shoulder_separation is given that have both hips and
\* both shoulders
C25_FramesWithBothLines ==
    LET dp == DetectedPoses(poses)
    IN  {i \in 1..Len(dp) : /\ HasLine(dp[i], "left_hip", "right_hip")
                            /\ HasLine(dp[i], "left_shoulder", "right_shoulder")}

C27_FramesStrictlyIncreasing ==
    \A i \in 1..Len(poses) - 1 : poses[i].frame_number < poses[i + 1].frame_number

C27_Applies ==
    /\ Keyframed
    /\ C27_FramesStrictlyIncreasing
    /\ Len(DetectedPoses(poses)) >= 5

\* C27: for a pose list with strictly increasing frame numbers and at least
\* five detected poses the keyframe map has setup <= reachback <=
\* follow_through, and when it holds a release, reachback < release <=
\* follow_through.
C27_KeyframesInThrowOrder ==
    C27_Applies =>
        /\ keyframes["setup"] <= keyframes["reachback"]
        /\ keyframes["reachback"] <= keyframes["follow_through"]
        /\ "release" \in DOMAIN keyframes =>
              /\ keyframes["reachback"] < keyframes["release"]
              /\ keyframes["release"] <= keyframes["follow_through"]

\* the steepest step starts at the reachback itself and the release is the
\* pose right after it, before the last pose
C27_Witness ==
    /\ C27_Applies
    /\ "release" \in DOMAIN keyframes
    /\ keyframes["setup"] < keyframes["reachback"]
    /\ keyframes["release"] = keyframes["reachback"] + SAMPLE_RATE
    /\ keyframes["release"] < keyframes["follow_through"]

\* the reachback is the last detected pose: no release, and reachback and
\* follow_through coincide
C27_WitnessNoRelease ==
    /\ C27_Applies
    /\ "release" \notin DOMAIN keyframes
    /\ keyframes["setup"] < keyframes["reachback"]
    /\ keyframes["reachback"] = keyframes["follow_through"]

\* the shoulder x _calculate_reachback subtracts the least wrist x from
C30_ShoulderUsed ==
    ReachbackScan(DetectedPoses(poses), handedness, <<100, 50>>)[2]

\* the detected poses whose throwing-wrist x is the least one found
C30_MinWristPoses ==
    LET ps == DetectedPoses(poses)
        w  == throwing_wrist(handedness)
    IN  {i \in 1..Len(ps) :
            /\ Has(ps[i], w)
            /\ ps[i].landmarks[w].x < 100
            /\ \A j \in 1..Len(ps) :
                  Has(ps[j], w) => ps[i].landmarks[w].x <= ps[j].landmarks[w].x}

\* C30: the shoulder x used for the reachback depth is the throwing-shoulder
\* x of a pose with the least throwing-wrist x, or the neutral 0.5 when that
\* pose has no throwing-shoulder landmark; it is never taken from another
\* pose.
C30_ShoulderFromMinWristPose ==
    (Analyzed /\ Len(DetectedPoses(poses)) >= 3 /\ C30_MinWristPoses # {}) =>
        \E i \in C30_MinWristPoses :
            LET pose == DetectedPoses(poses)[i]
            IN  C30_ShoulderUsed =
                    IF Has(pose, throwing_shoulder(handedness))
                    THEN pose.landmarks[throwing_shoulder(handedness)].x
                    ELSE 50

\* C25: the separation of a frame, |shoulder_angle - hip_angle| reflected to
\* 180 - separation when above 90, lies in [0, 90] for every pair of line
\* angles, and the metric is the greatest of these values over the frames
\* that have both hips and both shoulders.
C25_FoldedSeparationInRange ==
    (Analyzed /\ ~InsufficientPoses(DetectedPoses(poses))) =>
        LET dp == DetectedPoses(poses)
        IN  /\ \A i \in C25_FramesWithBothLines :
                  /\ FrameSeparation(dp[i]) >= 0
                  /\ FrameSeparation(dp[i]) <= 90000
            /\ C25_FramesWithBothLines # {} =>
                  /\ \E i \in C25_FramesWithBothLines :
                        metrics.shoulder_separation_degrees = FrameSeparation(dp[i])
                  /\ \A i \in C25_FramesWithBothLines :
                        metrics.shoulder_separation_degrees >= FrameSeparation(dp[i])

\* C10: for the empty pose list the keyframe map is empty, the metrics are
\* all zero, and the feedback on them names hip_rotation as priority focus
\* and carries at least one tip, at every skill level.
C10_EmptyPoseListDegrades ==
    poses = <<>> =>
        /\ Keyframed => keyframes = NoKeyframes
        /\ Analyzed => AllZero(metrics)
        /\ stage = "done" =>
              /\ feedback.priority_focus = "hip_rotation"
              /\ Len(feedback.pose_tips) >= 1

\* the whole pipeline ran on the empty list for an advanced thrower
C10_Witness ==
    /\ poses = <<>>
    /\ stage = "done"
    /\ skill_level = "advanced"
    /\ handedness = "left"
    /\ feedback.priority_focus = "hip_rotation"

Compared == comparison # NoComparison

\* the reference model holds, for every series of the user, the same series,
\* and the user has at least one non-empty series
C11_SameSeries ==
    /\ \E name \in DOMAIN user_metrics \ {"key_moments"} : user_metrics[name] # <<>>
    /\ \A name \in DOMAIN user_metrics \ {"key_moments"} :
          /\ name \in DOMAIN pro_metrics
          /\ pro_metrics[name] = user_metrics[name]

\* C11 as stated: compare_with_pro applied to a non-empty user metric set
\* and a reference model holding exactly the same series returns
\* overall_similarity = 1.0, whatever the number of samples and the frame
\* numbers of the series.
C11_SelfComparisonIsOne ==
    (Compared /\ C11_SameSeries) =>
        /\ comparison.status = "ok"
        /\ comparison.overall_similarity = <<1, 1>>

\* the reference series has the values of the user series and its frame
\* numbers multiplied by a positive constant
C12_IsStretched(pro_series, user_series) ==
    \E c \in 1..3 :
        /\ Len(pro_series) = Len(user_series)
        /\ \A i \in 1..Len(user_series) :
              /\ pro_series[i].value = user_series[i].value
              /\ pro_series[i].frame = c * user_series[i].frame

RECURSIVE C13_Sum(_, _)
C13_Sum(names, sims) ==
    IF names = {} THEN <<0, 1>>
    ELSE LET name == CHOOSE n \in names : TRUE
             rest == C13_Sum(names \ {name}, sims)
         IN  Frac(sims[name][1] * rest[2] + rest[1] * sims[name][2],
                  sims[name][2] * rest[2])

\* C13: in every result of compare_with_pro each per-metric similarity lies
\* in [0,1], overall_similarity is the sum of the computed similarities
\* divided by their number, and overall_similarity lies in [0,1].
C13_SimilaritiesInUnitRange ==
    (Compared /\ comparison.status = "ok") =>
        LET sims    == comparison.metric_similarities
            overall == comparison.overall_similarity
            sum     == C13_Sum(DOMAIN sims, sims)
        IN  /\ \A name \in DOMAIN sims :
                  /\ sims[name][2] > 0
                  /\ sims[name][1] >= 0
                  /\ sims[name][1] <= sims[name][2]
            /\ DOMAIN sims # {} =>
                  overall = Frac(sum[1], sum[2] * Cardinality(DOMAIN sims))
            /\ overall[2] > 0
            /\ overall[1] >= 0
            /\ overall[1] <= overall[2]

\* two similarities were computed: one is 0 because the mean difference
\* exceeds the normalizer, the other lies strictly between 0 and 1
C13_Witness ==
    /\ Compared
    /\ comparison.status = "ok"
    /\ Cardinality(DOMAIN comparison.metric_similarities) = 2
    /\ comparison.metric_similarities["shoulder_rotation"] = <<0, 1>>
    /\ RawSimilarity("shoulder_rotation", user_metrics["shoulder_rotation"],
                     pro_metrics["shoulder_rotation"]).value[1] < 0
    /\ \E name \in DOMAIN comparison.metric_similarities :
          /\ comparison.metric_similarities[name][1] > 0
          /\ comparison.metric_similarities[name][1] < comparison.metric_similarities[name][2]
    /\ comparison.overall_similarity[1] > 0

(***************************************************************************)
(* Properties of the angle unwrapping (specification SpecUnwrap).          *)
(***************************************************************************)
\* re-wrapping of the specification: modulo 360, shifted to [-180, 180)
C15_Rewrap(a) == ((a + 180000) % 360000) - 180000

\* C15 as stated: for an angle series produced by the angle computation,
\* unwrapping and then re-wrapping every value into [-180,180) gives back
\* the original series.
C15_RoundTripIsIdentity ==
    unwrapped # <<>> =>
        [i \in 1..Len(unwrapped) |-> C15_Rewrap(unwrapped[i])] = angle_series

\* C15 amended: unwrapping and then re-wrapping gives back every value of
\* the series except that an angle of exactly 180 degrees, which atan2
\* produces, comes back as -180; the unwrapped series differs from the
\* original by multiples of 360 and has no step of more than 180 degrees.
C15_RoundTripUpToBoundary ==
    unwrapped # <<>> =>
        /\ Len(unwrapped) = Len(angle_series)
        /\ \A i \in 1..Len(unwrapped) :
              /\ C15_Rewrap(unwrapped[i]) =
                    (IF angle_series[i] = 180000 THEN 0 - 180000 ELSE angle_series[i])
              /\ (unwrapped[i] - angle_series[i]) % 360000 = 0
        /\ \A i \in 2..Len(unwrapped) :
              Abs(unwrapped[i] - unwrapped[i - 1]) <= 180000

\* a jump across the boundary was removed (an unwrapped value lies outside
\* the range of atan2) in a series that also holds an angle of 180 degrees
C15_Witness ==
    /\ unwrapped # <<>>
    /\ \E i \in 1..Len(unwrapped) : Abs(unwrapped[i]) > 180000
    /\ \E i \in 1..Len(angle_series) : angle_series[i] = 180000
    /\ unwrapped # angle_series

(***************************************************************************)
(* Properties of the reachback score (specification SpecReachback).        *)
(***************************************************************************)
\* the piecewise map of the depth (in hundredths) to the score, truncated
\* to an integer: below 0 flat 30, from 0 to 0.1 linear from 30 to 60, from
\* 0.1 linear from 60 to 100, reached at 0.25
C16_Map(depth) ==
    IF depth < 0 THEN 30
    ELSE IF depth < 10 THEN 30 + 3 * depth
    ELSE IF depth >= 25 THEN 100
    ELSE 60 + ((depth - 10) * 8) \div 3

C16_Wrist == IF handedness = "right" THEN "right_wrist" ELSE "left_wrist"

C16_Shoulder == IF handedness = "right" THEN "right_shoulder" ELSE "left_shoulder"

\* the indices of the detected poses that carry the throwing wrist
C16_WithWrist(dp) == {i \in 1..Len(dp) : C16_Wrist \in DOMAIN dp[i].landmarks}

\* the first detected pose of minimum throwing-wrist x
C16_MinWristIdx(dp) ==
    CHOOSE i \in C16_WithWrist(dp) :
        /\ \A j \in C16_WithWrist(dp) :
              dp[i].landmarks[C16_Wrist].x <= dp[j].landmarks[C16_Wrist].x
        /\ \A j \in C16_WithWrist(dp) :
              j < i => dp[j].landmarks[C16_Wrist].x > dp[i].landmarks[C16_Wrist].x

C16_WitnessUpperLine ==
    /\ stage = "analyzed"
    /\ handedness = "right"
    /\ poses # ScenarioPoses
    /\ Len(poses) >= 3
    /\ metrics.reachback_depth_score = 73

(***************************************************************************)
(* Properties of the /analyze-pose handler (specification SpecHandler).    *)
(***************************************************************************)
Returned == pc = "returned"

\* C17: on every path on which the extractor was constructed, close() has
\* been called exactly once when the handler returns, whether the body ended
\* normally or in an exception of extraction, keyframe detection, analysis or
\* feedback generation; it is never called before the finally block, and not
\* at all when there is no extractor.
C17_CloseCalledExactlyOnce ==
    /\ ~Returned => close_calls = 0
    /\ Returned /\ pose_extractor # "None" => close_calls = 1
    /\ Returned /\ pose_extractor = "None" => close_calls = 0
    /\ pose_extractor = "open" => ~Returned

\* the handler returned after the except block, with an extractor that had
\* been constructed and has been closed once
C17_Witness ==
    /\ Returned
    /\ request.fault \in {"extract", "keyframes", "analyze", "feedback"}
    /\ response.status = ExceptStatus
    /\ pose_extractor = "closed"
    /\ close_calls = 1

C17_WitnessNormal ==
    /\ Returned
    /\ response.status = 200
    /\ pose_extractor = "closed"
    /\ close_calls = 1

\* the top-level parts of the response of the service boundary
ResponseSchemaKeys == {"trajectory", "pose", "feedback"}

\* an exception was raised in the body of the handler
C18_InternalFault ==
    \/ request.min_confidence = "invalid"
    \/ request.fault \in {"trajectory", "construct", "extract", "keyframes"}
    \/ request.fault \in {"analyze", "feedback"} /\ DetectedPoses(poses) # <<>>

\* the temporary file of the upload could not be written (a resource fault)
C18_ResourceFault == request.fault = "save"

\* C18: a request with the video part present that meets an internal fault
\* (other than a resource fault) is still answered with a structurally complete response that carries
\* error-indicating fields, and not with an HTTP-level failure: when the
\* handler has returned, the status is below 400, the body has the trajectory,
\* pose and feedback parts, and after a fault it has the error field.
C18_FaultGivesDegradedResponseNotFailure ==
    Returned /\ request.has_video /\ ~C18_ResourceFault =>
        /\ response.status < 400
        /\ ResponseSchemaKeys \subseteq DOMAIN response.body
        /\ C18_InternalFault => "error" \in DOMAIN response.body

(***************************************************************************)
(* Properties of the throw phases (specification SpecPhases).              *)
(***************************************************************************)
PhasesFound == phases # NoPhases

FrameRanges == [name \in DOMAIN phases |-> phases[name].frame_range]

\* C19: when both key moments are detected, at frames rb and r, the frame
\* ranges are reach_back = [max(first_frame, rb - 15), rb], pull_through =
\* [rb, r - 5], release = [r - 5, r + 5] and follow_through =
\* [r + 5, last_frame], for every rb and r that can be detected, frame 0
\* included.
C19_RangesFromBothKeyMoments ==
    PhasesFound /\ {"reach_back", "release"} \subseteq DOMAIN form_metrics["key_moments"] =>
        LET rb == form_metrics["key_moments"]["reach_back"].frame
            r == form_metrics["key_moments"]["release"].frame
            first_frame == SetMin(AllFrames(form_metrics))
            last_frame == SetMax(AllFrames(form_metrics))
        IN  FrameRanges =
                [reach_back     |-> <<Max(first_frame, rb - 15), rb>>,
                 pull_through   |-> <<rb, r - 5>>,
                 release        |-> <<r - 5, r + 5>>,
                 follow_through |-> <<r + 5, last_frame>>]

\* C20: the quartile split of [first_frame, last_frame] is used exactly when
\* neither reach_back nor release is present in key_moments; when at least
\* one key moment was detected, at whatever frame, it is not used.
C20_QuartileSplitIffNoKeyMoment ==
    PhasesFound /\ AllFrames(form_metrics) # {} =>
        LET neither == DOMAIN form_metrics["key_moments"] = {}
        IN  /\ UsesQuartileSplit(form_metrics) <=> neither
            /\ neither => FrameRanges = QuartileRanges(SetMin(AllFrames(form_metrics)),
                                                       SetMax(AllFrames(form_metrics)))

C29_Applies == PhasesFound /\ AllFrames(form_metrics) # {}

C29_FirstFrame == SetMin(AllFrames(form_metrics))

C29_LastFrame == SetMax(AllFrames(form_metrics))

C29_InData(name) ==
    /\ FrameRanges[name][1] <= FrameRanges[name][2]
    /\ C29_FirstFrame <= FrameRanges[name][1]
    /\ FrameRanges[name][2] <= C29_LastFrame

\* C29 as stated: each of the four frame ranges has start <= end and lies
\* within [first_frame, last_frame] of the data.
C29_AllRangesInData ==
    C29_Applies => \A name \in DOMAIN phases : C29_InData(name)

C29_Found(name) == name \in DOMAIN KeyMomentsOf(form_metrics)

\* the release lies at least 5 frames after the reach back and at least 5
\* frames before the last frame
C29_ReleaseHasRoom ==
    /\ C29_Found("release")
    /\ C29_Found("reach_back")
    /\ KeyMomentsOf(form_metrics)["reach_back"].frame + RELEASE_HALF_WIDTH
           <= KeyMomentsOf(form_metrics)["release"].frame
    /\ KeyMomentsOf(form_metrics)["release"].frame + RELEASE_HALF_WIDTH <= C29_LastFrame

\* no release, and either no reach back or data that starts at frame 0
C29_NoReleaseFromStart ==
    /\ ~C29_Found("release")
    /\ ~C29_Found("reach_back") \/ C29_FirstFrame = 0

\* C29 amended: the reach_back range always has start <= end and lies within
\* [first_frame, last_frame]; the pull_through, release and follow_through
\* ranges do so when a release was found with reach_back_frame + 5 <=
\* release_frame <= last_frame - 5, or when no release was found and either
\* no reach back was found or first_frame is 0.
C29_RangesInDataWithRoom ==
    C29_Applies =>
        /\ C29_InData("reach_back")
        /\ (C29_ReleaseHasRoom \/ C29_NoReleaseFromStart) =>
              \A name \in DOMAIN phases : C29_InData(name)

\* both key moments found away from frame 0, the release with room on both
\* sides, and the phases identified from them
C29_Witness ==
    /\ C29_Applies
    /\ C29_ReleaseHasRoom
    /\ KeyMomentsOf(form_metrics)["reach_back"].frame > C29_FirstFrame
    /\ FrameRanges["pull_through"][1] < FrameRanges["pull_through"][2]
    /\ FrameRanges["follow_through"][1] < FrameRanges["follow_through"][2]

\* no key moment found in data that starts after frame 0: the quartile split
C29_WitnessQuartile ==
    /\ C29_Applies
    /\ "key_moments" \in DOMAIN form_metrics
    /\ ~C29_Found("reach_back")
    /\ C29_FirstFrame > 0

KeyMomentsFound == "key_moments" \in DOMAIN form_metrics

\* the elbow samples of the mapping, and those after the reach back, in the
\* order of their frames
C21_Elbow == IF "elbow_angle" \in DOMAIN form_metrics THEN form_metrics["elbow_angle"] ELSE <<>>

C21_After ==
    LET rb == form_metrics["key_moments"]["reach_back"].frame
    IN  SelectSeqIdx(C21_Elbow, [j \in 1..Len(C21_Elbow) |-> C21_Elbow[j].frame > rb])

\* the absolute second difference centred at sample p of the samples after
\* the reach back
C21_Acceleration(p) ==
    Abs(C21_After[p + 1].value - 2 * C21_After[p].value + C21_After[p - 1].value)

C21_ReachBackAtMinimum ==
    LET km == form_metrics["key_moments"]
    IN  /\ "reach_back" \in DOMAIN km <=> C21_Elbow # <<>>
        /\ "reach_back" \in DOMAIN km =>
              \E i \in 1..Len(C21_Elbow) :
                  /\ km["reach_back"] = [frame |-> C21_Elbow[i].frame,
                                         elbow_angle |-> C21_Elbow[i].value]
                  /\ \A j \in 1..Len(C21_Elbow) : C21_Elbow[i].value <= C21_Elbow[j].value

C21_ReleaseAtPeakAcceleration ==
    LET km == form_metrics["key_moments"]
    IN  "release" \in DOMAIN km =>
            \E p \in 2..(Len(C21_After) - 1) :
                /\ km["release"] = [frame |-> C21_After[p].frame,
                                    elbow_angle |-> C21_After[p].value]
                /\ \A q \in 2..(Len(C21_After) - 1) :
                      /\ C21_Acceleration(p) >= C21_Acceleration(q)
                      /\ q < p => C21_Acceleration(q) < C21_Acceleration(p)

\* C21 as stated: reach_back is the frame at the global minimum of the elbow
\* series, release is detected exactly when at least 10 elbow samples lie
\* strictly after the reach-back frame, and is then the frame at the peak of
\* the absolute second difference of those samples.
C21_ReleaseFromTenSamples ==
    KeyMomentsFound =>
        /\ C21_ReachBackAtMinimum
        /\ C21_Elbow # <<>> =>
              ("release" \in DOMAIN form_metrics["key_moments"] <=> Len(C21_After) >= 10)
        /\ C21_ReleaseAtPeakAcceleration

\* C21 amended: release is detected exactly when more than 10 elbow samples
\* lie strictly after the reach-back frame and the mapping has a
\* reach_back_extension series; it is then the sample in the middle of the
\* greatest absolute second difference (the first such) of those samples.
C21_ReleaseFromElevenSamplesAndExtension ==
    KeyMomentsFound =>
        /\ C21_ReachBackAtMinimum
        /\ C21_Elbow = <<>> => "release" \notin DOMAIN form_metrics["key_moments"]
        /\ C21_Elbow # <<>> =>
              ("release" \in DOMAIN form_metrics["key_moments"] <=>
                  /\ Len(C21_After) > 10
                  /\ "reach_back_extension" \in DOMAIN form_metrics)
        /\ C21_ReleaseAtPeakAcceleration

\* a release was detected at the bend of the series, after a reach back that
\* is not the first frame
C21_Witness ==
    /\ KeyMomentsFound
    /\ {"reach_back", "release"} \subseteq DOMAIN form_metrics["key_moments"]
    /\ form_metrics["key_moments"]["reach_back"].frame > 0
    /\ Len(C21_After) = 11
    /\ C21_Acceleration(2) = 0
    /\ form_metrics["key_moments"]["release"].frame > C21_After[2].frame

(***************************************************************************)
(* Properties of the model builders (specification SpecModel).             *)
(***************************************************************************)
\* C22: create_pro_model and analyze_user_video leave the metrics mapping
\* they were given or return unchanged: after the model or the record has
\* been built the mapping still has its key_moments entry.
C22_MetricsKeepKeyMoments ==
    model # NoModel => "key_moments" \in DOMAIN form_metrics

(***************************************************************************)
(* Properties of the feedback generator (specification SpecFeedback).      *)
(***************************************************************************)
Range(s) == {s[i] : i \in 1..Len(s)}

RuleMetrics == {FEEDBACK_RULES[i].metric : i \in 1..Len(FEEDBACK_RULES)}

\* the skill multiplier in hundredths
SkillMultiplier ==
    CASE skill_level = "beginner" -> 80
      [] skill_level = "intermediate" -> 100
      [] skill_level = "advanced" -> 115

C7_Order ==
    << "hip_rotation_degrees", "reachback_depth_score", "shoulder_separation_degrees",
       "weight_shift_score", "follow_through_score" >>

C7_Tag(metric) ==
    CASE metric = "hip_rotation_degrees" -> "hip_rotation"
      [] metric = "reachback_depth_score" -> "reachback"
      [] metric = "shoulder_separation_degrees" -> "x_factor"
      [] metric = "weight_shift_score" -> "weight_transfer"
      [] metric = "follow_through_score" -> "follow_through"

\* the dictionary value on the common scale, in tenths: degrees doubled and
\* capped at 100, scores as they are
C7_Normalized(metric) ==
    IF metric \in {"hip_rotation_degrees", "shoulder_separation_degrees"}
    THEN Min(1000, 2 * to_dict(metrics)[metric])
    ELSE 10 * to_dict(metrics)[metric]

C8_OverallScoreIsTruncatedWeightedSum ==
    stage = "done" =>
        LET sum == 36000 * metrics.reachback_depth_score
                   + 25 * Min(180000, 3 * metrics.hip_rotation_degrees)
                   + 20 * Min(180000, 4 * metrics.shoulder_separation_degrees)
                   + 27000 * metrics.follow_through_score
                   + 36000 * metrics.weight_shift_score
        IN  /\ feedback.overall_score = sum \div 180000
            /\ feedback.overall_score \in 0..100

\* the index in the rule table of the k-th metric of the given status
C9_KthWithStatus(status, k) ==
    CHOOSE i \in 1..Len(FEEDBACK_RULES) :
        /\ metric_scores[FEEDBACK_RULES[i].metric] = status
        /\ Cardinality({j \in 1..(i - 1) :
                           metric_scores[FEEDBACK_RULES[j].metric] = status}) = k - 1

C9_Count(status) ==
    Cardinality({i \in 1..Len(FEEDBACK_RULES) :
                    metric_scores[FEEDBACK_RULES[i].metric] = status})

\* C9: the feedback carries 1 to 4 tips and 1 to 3 strengths; the generic
\* tip is there exactly when no metric is low, the generic strength exactly
\* when no metric is high; otherwise the tips are the first four low
\* messages and the strengths the first three good messages in rule-table
\* order.
C9_TipAndStrengthLists ==
    stage = "done" =>
        /\ Len(feedback.pose_tips) \in 1..4
        /\ Len(feedback.strengths) \in 1..3
        /\ (GenericTip \in Range(feedback.pose_tips)) <=> C9_Count("low") = 0
        /\ (GenericStrength \in Range(feedback.strengths)) <=> C9_Count("high") = 0
        /\ C9_Count("low") = 0 => feedback.pose_tips = <<GenericTip>>
        /\ C9_Count("high") = 0 => feedback.strengths = <<GenericStrength>>
        /\ C9_Count("low") > 0 =>
              feedback.pose_tips =
                  [k \in 1..Min(4, C9_Count("low")) |->
                      FEEDBACK_RULES[C9_KthWithStatus("low", k)].low_feedback]
        /\ C9_Count("high") > 0 =>
              feedback.strengths =
                  [k \in 1..Min(3, C9_Count("high")) |->
                      FEEDBACK_RULES[C9_KthWithStatus("high", k)].good_feedback]

\* all five metrics are low: four tips are returned, the fifth is dropped,
\* and the generic strength stands in
C9_Witness ==
    /\ stage = "done"
    /\ C9_Count("low") = 5
    /\ Len(feedback.pose_tips) = 4
    /\ feedback.strengths = <<GenericStrength>>

C24_Rule(metric) == CHOOSE i \in 1..Len(FEEDBACK_RULES) : FEEDBACK_RULES[i].metric = metric

C24_LowMessage(metric) == FEEDBACK_RULES[C24_Rule(metric)].low_feedback

\* the place of the metric a low message belongs to in the order hip
\* rotation, reachback, x-factor, weight shift, follow through
C24_PriorityRank(message) ==
    CHOOSE r \in 1..5 : C24_LowMessage(C7_Order[r]) = message

\* C24: the low messages are emitted in the priority order hip rotation,
\* reachback, x-factor, weight shift, follow through, so when all five
\* metrics are low the tip the 4-tip cap drops is that of the metric of
\* lowest priority, follow through.
C24_TipsEmittedInPriorityOrder ==
    (stage = "done" /\ C9_Count("low") > 0) =>
        /\ \A a, b \in 1..Len(feedback.pose_tips) :
              a < b => C24_PriorityRank(feedback.pose_tips[a])
                          < C24_PriorityRank(feedback.pose_tips[b])
        /\ C9_Count("low") = 5 =>
              Range(feedback.pose_tips) =
                  {C24_LowMessage(C7_Order[r]) : r \in 1..4}

\* C28: whenever at least one metric is low, the low message of the metric
\* that priority_focus names is among the returned tips: the 4-tip cap never
\* drops it.
C28_PriorityTipIsKept ==
    (stage = "done" /\ C9_Count("low") > 0) =>
        \E r \in 1..5 :
            /\ C7_Tag(C7_Order[r]) = feedback.priority_focus
            /\ C24_LowMessage(C7_Order[r]) \in Range(feedback.pose_tips)

\* all five metrics are low, so the cap drops one tip, and the tip of the
\* priority metric, which is second in the rule table, is the second tip
C28_Witness ==
    /\ stage = "done"
    /\ C9_Count("low") = 5
    /\ feedback.priority_focus = "hip_rotation"
    /\ Len(feedback.pose_tips) = 4
    /\ feedback.pose_tips[2] = C24_LowMessage("hip_rotation_degrees")

\* weight shift is the only low metric besides follow through: it is the
\* focus, and its tip, last in the rule table, is kept
C28_WitnessLastRule ==
    /\ stage = "done"
    /\ C9_Count("low") = 2
    /\ feedback.priority_focus = "weight_transfer"
    /\ feedback.pose_tips[2] = C24_LowMessage("weight_shift_score")

(***************************************************************************)
(* Properties of the frame loop (specification SpecExtractLive).           *)
(***************************************************************************)
C26_StrictlyIncreasing ==
    \A i \in 1..Len(poses) - 1 : poses[i].frame_number < poses[i + 1].frame_number

C26_ReturnedWithinLimit ==
    /\ extract_pc = "returned"
    /\ reads <= extract_args.max_frames
    /\ C26_StrictlyIncreasing
    /\ \A i \in 1..Len(poses) :
          /\ poses[i].frame_number % extract_args.sample_rate = 0
          /\ poses[i].frame_number >= 0
          /\ poses[i].frame_number < extract_args.max_frames

\* C26: once the video is open, extract_poses_from_video always comes to its
\* return statement and never raises; by then it has called cap.read() at
\* most max_frames times, and the poses it returns have strictly increasing
\* frame numbers, each a multiple of sample_rate below max_frames.
C26_LoopReturnsWithinLimit == (extract_pc = "loop") ~> C26_ReturnedWithinLimit

\* the frame limit cuts a longer video short and several poses are returned
C26_Witness ==
    /\ extract_pc = "returned"
    /\ frame_count = extract_args.max_frames
    /\ extract_args.video_frames > extract_args.max_frames
    /\ extract_args.sample_rate = 2
    /\ Len(poses) >= 3

\* the video ends before the limit, after skipped and processed frames
C26_WitnessVideoEnds ==
    /\ extract_pc = "returned"
    /\ frame_count = extract_args.video_frames
    /\ extract_args.video_frames < extract_args.max_frames
    /\ extract_args.sample_rate = 3
    /\ Len(poses) >= 2

====
